---- MODULE Spec2Model ----
(***************************************************************************)
(* LLMRace proxy: the race executor (app/runs/executor.py), the telemetry  *)
(* log (app/runs/telemetry.py) and the run endpoints (app/api/runs.py),    *)
(* together with the entity endpoints that delete rows the executor reads. *)
(*                                                                         *)
(* The store is the relational database: one variable per table that the   *)
(* executor reads or writes.  Rows are never given back their ids: a table  *)
(* is a sequence and a row id is its index.  The worker is one asyncio      *)
(* task; each of its actions is one `with session_factory()` block (or the *)
(* code between two awaits), so requests served by the thread pool (the    *)
(* synchronous delete/update endpoints) interleave between blocks.         *)
(*                                                                         *)
(* Left out: database statements that fail, update_suite (which replaces   *)
(* the tests of a suite), the token and assertion events of an attempt,    *)
(* and every column no property below reads.  A tool-call response carries *)
(* one tool call.  db.scalar over several matching rows returns the row    *)
(* with the least id.                                                      *)
(***************************************************************************)
EXTENDS Integers, Sequences, FiniteSets, TLC

\* ------------------------------------------------------------- bounds
MaxRuns == 2           \* start_run requests accepted, Spec
MaxDeletes == 1        \* delete requests served (car, connection or suite)
MaxToolRuns == 1       \* start_run requests accepted, SpecTools
MaxJudgedRuns == 1     \* start_run requests accepted, SpecJudge
MaxJudgeCalls == 2     \* judge requests served
MaxStreamRuns == 1     \* start_run requests accepted, SpecStream
MaxToolExecRuns == 1   \* start_run requests accepted, SpecToolExec
MaxTokenRuns == 1      \* start_run requests accepted, SpecTokens
MaxTokens == 2         \* tokens streamed in one attempt
MaxFailRuns == 2       \* start_run requests accepted, SpecWorkerFail
MaxConstraintLen == 4  \* symbols of an expected_constraints text
MaxMs == 3             \* largest clock value and ttft_ms given to compute_metrics
MaxScoredRuns == 1     \* start_run requests accepted, SpecJudgeScores
MaxScoreCalls == 2     \* judge requests served, SpecJudgeScores
MaxOrderRuns == 1      \* start_run requests accepted, SpecOrder
MaxSuiteUpdates == 1   \* update_suite requests served, SpecOrder
MaxExecutorRuns == 2   \* start_run requests accepted, SpecExecutor
MaxSettingsUpdates == 1  \* update_provider_settings requests served, SpecExecutor
MaxStops == 1          \* stop() calls, SpecExecutor
MaxLines == 3          \* data lines of an OpenAI-compatible stream
MaxAssertionRuns == 1     \* runs started, SpecAssertions
MaxAssertionUpdates == 1  \* update_suite requests, SpecAssertions
MaxSubscriberRuns == 2    \* start_run requests accepted, SpecSubscriber

\* ------------------------------------------------- program constants
tool_loop_limit == 3

\* ------------------------------------------------------ entity universes
CarIds == {1, 2}
TestIds == <<1>>                    \* the suite's tests by ascending order_index
RetryValues == {-1, 1}              \* retry_count is an unconstrained integer
CarIdLists == {<< >>, <<1>>, <<1, 2>>, <<1, 1>>}
JudgeSlots == {1, 2}
SubIds == {1, 2}                    \* subscriber connections

\* Car.connection_id : every car is bound to its own connection.
connection_id(c) == c

NULL == 0

VARIABLES
    suite_alive,       \* the suite row (and, by cascade, its tests) exists
    cars,              \* ids of the existing Car rows
    connections,       \* ids of the existing Connection rows
    retry_count,       \* ProviderSettings.retry_count of the provider type
    tests,             \* ids of the suite's TestCase rows, by ascending order_index
    settings_max_in_flight,  \* ProviderSettings.max_in_flight of the provider type
    expected_constraints,    \* TestCase.expected_constraints: test id -> text
    runs,              \* Run rows: id -> [status, selected_car_ids]
    run_items,         \* RunItem rows: id -> [run_id, test_id, car_id, status, attempt_count]
    outputs,           \* Output rows, in insertion order
    metrics,           \* Metric rows, in insertion order
    tool_calls,        \* ToolCall rows, in insertion order
    telemetry_events,  \* TelemetryEvent rows, in insertion order
    queue,             \* RaceExecutor._queue
    w,                 \* the worker task: program counter and locals
    judge,             \* judge_run requests in progress
    served,            \* how many requests of each bounded kind were served
    judge_results,     \* JudgeResult rows, in insertion order
    subs,              \* subscriber streams (stream_run connections)
    semaphores,        \* RaceExecutor._semaphores: provider type -> semaphore
    call               \* the last call of a function of the program: arguments, result

vars == <<suite_alive, cars, connections, retry_count, tests, settings_max_in_flight,
          expected_constraints,
          semaphores, runs, run_items, outputs,
          metrics, tool_calls, telemetry_events, queue, w, judge, served,
          judge_results, subs, call>>

dbvars == <<suite_alive, cars, connections, retry_count, tests, settings_max_in_flight,
            expected_constraints>>

\* ------------------------------------------------------------ helpers
Max(S) == CHOOSE x \in S : \A y \in S : y <= x
Min(S) == CHOOSE x \in S : \A y \in S : x <= y
Range(s) == {s[i] : i \in DOMAIN s}

RunTerminal == {"COMPLETED", "FAILED"}
ItemTerminal == {"COMPLETED", "PARTIAL_TOOL_SUPPORT", "FAILED"}

\* The payload fields the properties read; the other keys are left out.
NoPayload == [status |-> "", error |-> "", attempt |-> 0, retrying |-> FALSE,
              item_scores |-> 0, loop |-> -1, token |-> ""]
StatusPayload(st) == [NoPayload EXCEPT !.status = st]
ErrorPayload(error, attempt, retrying) ==
    [NoPayload EXCEPT !.error = error, !.attempt = attempt, !.retrying = retrying]

\* select(func.max(TelemetryEvent.seq_no)).where(run_id == r) or 0
MaxSeq(ev, r) ==
    LET S == {ev[i].seq_no : i \in {j \in DOMAIN ev : ev[j].run_id = r}}
    IN IF S = {} THEN 0 ELSE Max(S)

\* (mutant) the maximum taken over the events of the same run item only
emit_event_per_item(ev, r, type, payload, item) ==
    LET S == {ev[i].seq_no : i \in {j \in DOMAIN ev : ev[j].run_id = r /\ ev[j].run_item_id = item}}
    IN Append(ev, [run_id |-> r, seq_no |-> (IF S = {} THEN 0 ELSE Max(S)) + 1,
                   event_type |-> type, payload |-> payload, run_item_id |-> item])

\* emit_event(db, run_id, event_type, payload, run_item_id): the table after it.
emit_event(ev, r, type, payload, item) ==
    Append(ev, [run_id |-> r, seq_no |-> MaxSeq(ev, r) + 1,
                event_type |-> type, payload |-> payload, run_item_id |-> item])

\* The events of run r, in insertion order.
RECURSIVE EventsOf(_, _)
EventsOf(ev, r) ==
    IF ev = << >> THEN << >>
    ELSE LET rest == EventsOf(SubSeq(ev, 1, Len(ev) - 1), r)
             last == ev[Len(ev)]
         IN IF last.run_id = r THEN Append(rest, last) ELSE rest

ItemsOfRun(r) == {i \in DOMAIN run_items : run_items[i].run_id = r}

ItemOf(r, t, c) ==
    \* db.scalar(select(RunItem).where(run_id, test_id, car_id)): the first row
    \* of the table scan, i.e. the matching row with the least id (0 when none).
    LET M == {i \in ItemsOfRun(r) : run_items[i].test_id = t /\ run_items[i].car_id = c}
    IN IF M = {} THEN NULL ELSE Min(M)

HasRow(tbl, i) == \E k \in DOMAIN tbl : tbl[k].run_item_id = i
FirstRow(tbl, i) == Min({k \in DOMAIN tbl : tbl[k].run_item_id = i})
RowsOf(tbl, i) == {k \in DOMAIN tbl : tbl[k].run_item_id = i}

NoFin == [item |-> NULL, started |-> 0, ok |-> FALSE]

WIdle == [pc |-> "idle", run_id |-> NULL, tests |-> << >>, ordered_cars |-> << >>,
          ti |-> 0, ci |-> 0, item |-> NULL, retries |-> 0, attempt |-> 0,
          started |-> 0, loop_idx |-> 0, tool_messages |-> 0, streamed_parts |-> << >>,
          expected_constraints |-> << >>, fin |-> NoFin]

\* ProviderSettings.max_in_flight of every provider type as seeded.
max_in_flight == 1

\* _get_semaphore: the size of a provider type's semaphore.
SemaphoreSize(n) == Max({1, n})

\* The connections of the model are of one provider type; semaphore_key is
\* connection.type.value.
ProviderTypes == {"OLLAMA"}
semaphore_key == "OLLAMA"

\* A key that _semaphores does not hold, and asyncio.Semaphore(max_size):
\* size is the number of permits it was made with, value those left.
NoSemaphore == [size |-> 0, value |-> 0]
Semaphore(max_size) == [size |-> max_size, value |-> max_size]

\* (mutant) _get_semaphore makes the semaphore anew when max_in_flight changed
get_semaphore_resized(sems, key, n) ==
    IF sems[key] = NoSemaphore \/ sems[key].size # SemaphoreSize(n)
    THEN [sems EXCEPT ![key] = Semaphore(SemaphoreSize(n))]
    ELSE sems

\* _get_semaphore: _semaphores after the call
get_semaphore(sems, key, n) ==
    IF sems[key] = NoSemaphore
    THEN [sems EXCEPT ![key] = Semaphore(SemaphoreSize(n))]
    ELSE sems

\* async with semaphore: __aenter__ takes a permit (it waits while none is
\* left), __aexit__ gives it back on every way out of the block.
acquire(sems, key) == [sems EXCEPT ![key].value = @ - 1]
release(sems, key) == [sems EXCEPT ![key].value = @ + 1]

\* A request parameter that is absent, not an integer, or the integer n.
Absent == [kind |-> "absent", val |-> 0]
Junk == [kind |-> "junk", val |-> 0]
IntVal(n) == [kind |-> "int", val |-> n]

\* No function was called yet.
NoCall == [fn |-> "none"]

\* A subscriber connection that was not opened.
NoSub == [pc |-> "none", run_id |-> NULL, after_seq |-> Absent, last_event_id |-> Absent,
          start |-> 0, current_seq |-> 0, delivered |-> << >>]

\* ---------------------------------------------------------------- Init
\* The state after lifespan start-up: seeded suite and provider settings,
\* the cars and their connections created, no run yet, the worker waiting
\* on the empty queue.
Init ==
    /\ suite_alive = TRUE
    /\ cars = CarIds
    /\ connections = {connection_id(c) : c \in CarIds}
    /\ retry_count \in RetryValues
    /\ tests = TestIds
    /\ settings_max_in_flight = max_in_flight
    /\ expected_constraints = [t \in Range(TestIds) |-> << >>]    \* None
    /\ semaphores = [key \in ProviderTypes |-> NoSemaphore]
    /\ runs = << >>
    /\ run_items = << >>
    /\ outputs = << >>
    /\ metrics = << >>
    /\ tool_calls = << >>
    /\ telemetry_events = << >>
    /\ queue = << >>
    /\ w = WIdle
    /\ judge = [j \in JudgeSlots |-> [pc |-> "idle", run_id |-> NULL, car |-> NULL,
                                     todo |-> << >>, done |-> << >>]]
    /\ served = [runs |-> 0, deletes |-> 0, judges |-> 0, updates |-> 0, settings |-> 0, stops |-> 0]
    /\ judge_results = << >>
    /\ subs = [s \in SubIds |-> NoSub]
    /\ call = NoCall

\* ------------------------------------------------------------ start_run
\* The RunItem rows start_run adds: one per (test, entry of car_ids), tests
\* outer, car_ids inner.
RECURSIVE NewItems(_, _, _)
NewItems(r, ti, ids) ==
    IF ti > Len(tests) THEN << >>
    ELSE [k \in 1..Len(ids) |->
            [run_id |-> r, test_id |-> tests[ti], car_id |-> ids[k],
             status |-> "PENDING", attempt_count |-> 0]]
         \o NewItems(r, ti + 1, ids)

start_run(ids) ==
    /\ suite_alive                                       \* else 404
    /\ Cardinality(Range(ids) \cap cars) = Cardinality(Range(ids))  \* else 400
    /\ Len(tests) > 0                                    \* else 400
    /\ LET r == Len(runs) + 1 IN
         /\ runs' = Append(runs, [status |-> "QUEUED", selected_car_ids |-> ids])
         /\ run_items' = run_items \o NewItems(r, 1, ids)
         /\ queue' = Append(queue, r)
    /\ served' = [served EXCEPT !.runs = @ + 1]
    /\ UNCHANGED <<call, semaphores, dbvars, outputs, metrics, tool_calls, telemetry_events, w, judge, judge_results, subs>>

\* ------------------------------------------------------------- worker
\* (mutant) the worker takes the run enqueued last
RunStartLifo ==
    /\ w.pc = "idle"
    /\ queue # << >>
    /\ LET r == queue[Len(queue)] IN
         /\ runs' = [runs EXCEPT ![r].status = "RUNNING"]
         /\ telemetry_events' = emit_event(telemetry_events, r, "run.started", StatusPayload("RUNNING"), NULL)
         /\ w' = [WIdle EXCEPT !.pc = "run_load", !.run_id = r]
    /\ queue' = SubSeq(queue, 1, Len(queue) - 1)
    /\ UNCHANGED <<call, semaphores, dbvars, run_items, outputs, metrics, tool_calls, judge, served, judge_results, subs>>

\* (mutant) the first session without the status write
RunStartNoRunning ==
    /\ w.pc = "idle"
    /\ queue # << >>
    /\ LET r == Head(queue) IN
         /\ runs' = runs
         /\ telemetry_events' = emit_event(telemetry_events, r, "run.started", StatusPayload("RUNNING"), NULL)
         /\ w' = [WIdle EXCEPT !.pc = "run_load", !.run_id = r]
    /\ queue' = Tail(queue)
    /\ UNCHANGED <<call, semaphores, dbvars, run_items, outputs, metrics, tool_calls, judge, served, judge_results, subs>>

\* _worker_loop: run_id = await self._queue.get(); _execute_run, first
\* session: QUEUED -> RUNNING, run.started
RunStart ==
    /\ w.pc = "idle"
    /\ queue # << >>
    /\ LET r == Head(queue) IN
         /\ runs' = [runs EXCEPT ![r].status = "RUNNING"]
         /\ telemetry_events' = emit_event(telemetry_events, r, "run.started", StatusPayload("RUNNING"), NULL)
         /\ w' = [WIdle EXCEPT !.pc = "run_load", !.run_id = r]
    /\ queue' = Tail(queue)
    /\ UNCHANGED <<call, semaphores, dbvars, run_items, outputs, metrics, tool_calls, judge, served, judge_results, subs>>

\* (mutant) cars outer, tests inner
AdvancePosCarsOuter(wr) ==
    IF wr.ti < Len(wr.tests)
    THEN [wr EXCEPT !.ti = @ + 1, !.pc = "loop", !.item = NULL]
    ELSE IF wr.ci < Len(wr.ordered_cars)
    THEN [wr EXCEPT !.ci = @ + 1, !.ti = 1, !.pc = "loop", !.item = NULL]
    ELSE [wr EXCEPT !.pc = "run_end", !.item = NULL]

\* The position after the current (test, car) pair of the nested for loops,
\* or the end of the loops.
AdvancePos(wr) ==
    IF wr.ci < Len(wr.ordered_cars)
    THEN [wr EXCEPT !.ci = @ + 1, !.pc = "loop", !.item = NULL]
    ELSE IF wr.ti < Len(wr.tests)
    THEN [wr EXCEPT !.ti = @ + 1, !.ci = 1, !.pc = "loop", !.item = NULL]
    ELSE [wr EXCEPT !.pc = "run_end", !.item = NULL]

\* _execute_run, second session: suite, tests, ordered_cars
RunLoad ==
    /\ w.pc = "run_load"
    /\ suite_alive
    /\ LET oc == SelectSeq(runs[w.run_id].selected_car_ids, LAMBDA c : c \in cars) IN
         w' = [w EXCEPT !.tests = tests, !.ordered_cars = oc, !.ti = 1, !.ci = 1,
                        !.pc = IF Len(tests) = 0 \/ Len(oc) = 0 THEN "run_end" ELSE "loop"]
    /\ UNCHANGED <<call, semaphores, dbvars, runs, run_items, outputs, metrics, tool_calls,
                   telemetry_events, queue, judge, served, judge_results, subs>>

CurTest == w.tests[w.ti]
CurCar == w.ordered_cars[w.ci]

\* loop body, connection missing: FAILED, item.error, continue
LoopConnectionMissing ==
    /\ w.pc = "loop"
    /\ ItemOf(w.run_id, CurTest, CurCar) # NULL
    /\ connection_id(CurCar) \notin connections
    /\ LET i == ItemOf(w.run_id, CurTest, CurCar) IN
         /\ run_items' = [run_items EXCEPT ![i].status = "FAILED"]
         /\ telemetry_events' = emit_event(telemetry_events, w.run_id, "item.error",
                                           [NoPayload EXCEPT !.error = "Connection missing"], i)
    /\ w' = [AdvancePos(w) EXCEPT !.fin = NoFin]
    /\ UNCHANGED <<call, semaphores, dbvars, runs, outputs, metrics, tool_calls, queue, judge, served, judge_results, subs>>

Present(i) ==
    /\ suite_alive /\ run_items[i].test_id \in Range(tests)   \* db.get(TestCase, test_id)
    /\ run_items[i].car_id \in cars                  \* db.get(Car, car_id)

\* loop body, connection present: _execute_item is called, and in its first
\* session a row is missing: return
ItemBeginReturn ==
    /\ w.pc = "loop"
    /\ ItemOf(w.run_id, CurTest, CurCar) # NULL
    /\ connection_id(CurCar) \in connections
    /\ ~Present(ItemOf(w.run_id, CurTest, CurCar))
    /\ w' = [AdvancePos(w) EXCEPT !.fin = NoFin]
    /\ UNCHANGED <<call, semaphores, dbvars, runs, run_items, outputs, metrics, tool_calls,
                   telemetry_events, queue, judge, served, judge_results, subs>>

\* retries = max(0, provider_settings.retry_count)
Retries(rc) == IF rc < 0 THEN 0 ELSE rc

\* loop body, connection present: _execute_item is called; its first session:
\* PENDING -> RUNNING, item.started, retries
ItemBegin ==
    /\ w.pc = "loop"
    /\ ItemOf(w.run_id, CurTest, CurCar) # NULL
    /\ connection_id(CurCar) \in connections
    /\ Present(ItemOf(w.run_id, CurTest, CurCar))
    /\ LET i == ItemOf(w.run_id, CurTest, CurCar) IN
         /\ run_items' = [run_items EXCEPT ![i].status = "RUNNING"]
         /\ telemetry_events' = emit_event(telemetry_events, w.run_id, "item.started", NoPayload, i)
         /\ w' = [w EXCEPT !.pc = "attempt", !.item = i, !.retries = Retries(retry_count),
                           !.attempt = 0, !.started = 0, !.fin = NoFin]
    /\ UNCHANGED <<call, semaphores, dbvars, runs, outputs, metrics, tool_calls, queue, judge, served, judge_results, subs>>

\* (mutant) the backoff sleep also after the last attempt
AttemptExceptOffByOne(wr) ==
    [wr EXCEPT !.pc = IF wr.attempt <= wr.retries THEN "sleep" ELSE "item_fail"]

\* except Exception in _execute_item: item.error {attempt, retrying}, then the
\* backoff sleep when another attempt follows, else the FAILED block.
AttemptExcept(wr) ==
    [wr EXCEPT !.pc = IF wr.attempt < wr.retries THEN "sleep" ELSE "item_fail"]

\* _execute_item_attempt, first session, a check raises before attempt_count
\* is written ("Missing test or car", "Missing connection")
AttemptBeginRaise ==
    /\ w.pc = "attempt"
    /\ ~(Present(w.item) /\ connection_id(run_items[w.item].car_id) \in connections)
    /\ telemetry_events' = emit_event(telemetry_events, w.run_id, "item.error",
                                      ErrorPayload("Missing row", w.attempt + 1, w.attempt < w.retries),
                                      w.item)
    /\ w' = AttemptExcept([w EXCEPT !.started = @ + 1])
    /\ UNCHANGED <<call, semaphores, dbvars, runs, run_items, outputs, metrics, tool_calls, queue,
                   judge, served, judge_results, subs>>

\* _execute_item_attempt up to the first await: attempt_count = attempt_number,
\* the semaphore of the provider type (made on its first use) and a permit
\* of it, request.sent of
\* the first pass of the tool loop, then the await on provider_client.generate
AttemptBegin ==
    /\ w.pc = "attempt"
    /\ Present(w.item) /\ connection_id(run_items[w.item].car_id) \in connections
    /\ run_items' = [run_items EXCEPT ![w.item].attempt_count = w.attempt + 1]
    /\ get_semaphore(semaphores, semaphore_key, settings_max_in_flight)[semaphore_key].value > 0
    /\ semaphores' = acquire(get_semaphore(semaphores, semaphore_key, settings_max_in_flight),
                             semaphore_key)
    /\ telemetry_events' = emit_event(telemetry_events, w.run_id, "request.sent",
                                      [NoPayload EXCEPT !.attempt = w.attempt + 1, !.loop = 0],
                                      w.item)
    /\ w' = [w EXCEPT !.pc = "generating", !.started = @ + 1, !.loop_idx = 0,
                      !.tool_messages = 0, !.streamed_parts = << >>,
                      !.expected_constraints = expected_constraints[run_items[w.item].test_id]]
    /\ UNCHANGED <<call, dbvars, runs, outputs, metrics, tool_calls, queue, judge, served, judge_results, subs>>

\* ------------------------------------------------- constraint evaluator
\* A text is the sequence of its symbols; a symbol is a character or, for
\* short, a word that the evaluator takes as a whole.
Symbols == {"contains", "Regex", "max_words", ":", ";", " ", "a", "(", "1"}

RECURSIVE TextsUpTo(_)
TextsUpTo(n) ==
    IF n = 0 THEN {<< >>}
    ELSE LET shorter == TextsUpTo(n - 1)
         IN shorter \cup {Append(t, s) : t \in {x \in shorter : Len(x) = n - 1}, s \in Symbols}

ConstraintTexts == TextsUpTo(MaxConstraintLen)
OutputTexts == {<<"a">>, <<"1", " ", "a", " ", "a">>}

\* str.lower
lower(text) == [k \in DOMAIN text |-> IF text[k] = "Regex" THEN "regex" ELSE text[k]]

\* str.strip
RECURSIVE strip(_)
strip(text) ==
    IF text = << >> THEN << >>
    ELSE IF Head(text) \in {" ", "\n"} THEN strip(Tail(text))
    ELSE IF text[Len(text)] \in {" ", "\n"} THEN strip(SubSeq(text, 1, Len(text) - 1))
    ELSE text

\* re.split(r"[\n;]+", text): the parts between the runs of separators
RECURSIVE re_split(_, _)
re_split(text, part) ==
    IF text = << >> THEN <<part>>
    ELSE IF Head(text) \in {"\n", ";"}
         THEN <<part>> \o re_split(Tail(text), << >>)
         ELSE re_split(Tail(text), Append(part, Head(text)))

\* sub in text
Within(sub, text) ==
    \E k \in 0..(Len(text) - Len(sub)) : SubSeq(text, k + 1, k + Len(sub)) = sub

\* len(output_text.split())
RECURSIVE CountWords(_, _)
CountWords(text, in_word) ==
    IF text = << >> THEN 0
    ELSE IF Head(text) \in {" ", "\n"} THEN CountWords(Tail(text), FALSE)
    ELSE (IF in_word THEN 0 ELSE 1) + CountWords(Tail(text), TRUE)

\* int(text): the number, or -1 for ValueError (no text here is negative)
RECURSIVE ParseInt(_, _)
ParseInt(text, acc) ==
    IF text = << >> THEN acc
    ELSE IF Head(text) = "1" THEN ParseInt(Tail(text), 10 * acc + 1)
    ELSE -1

\* _check_max_words
check_max_words(expected, output_text) ==
    LET max_words == IF strip(expected) = << >> THEN -1 ELSE ParseInt(strip(expected), 0)
    IN IF max_words = -1 THEN FALSE ELSE CountWords(output_text, FALSE) <= max_words

\* _parse_constraints: the (name, value) pairs of the chunks that have a ':'
FirstColon(chunk) == Min({k \in DOMAIN chunk : chunk[k] = ":"})

parse_constraints(raw_constraints) ==
    LET parts == re_split(raw_constraints, << >>)
        chunks == SelectSeq([k \in DOMAIN parts |-> strip(parts[k])], LAMBDA c : c # << >>)
        with_colon == SelectSeq(chunks, LAMBDA c : ":" \in Range(c))
    IN [k \in DOMAIN with_colon |->
           LET chunk == with_colon[k]
           IN [type |-> lower(strip(SubSeq(chunk, 1, FirstColon(chunk) - 1))),
               expected |-> strip(SubSeq(chunk, FirstColon(chunk) + 1, Len(chunk)))]]

\* re.search(expected, output_text): re.error for a pattern with an open
\* group that is never closed; the other patterns here are literal
re_search(expected, output_text) ==
    IF "(" \in Range(expected) THEN "re.error"
    ELSE IF Within(expected, output_text) THEN "match" ELSE "no match"

\* One check of evaluate_expected_constraints: passed, or the exception
Check(check, output_text) ==
    CASE check.type = <<"contains">> -> [exc |-> "none", passed |-> Within(check.expected, output_text)]
      [] check.type = <<"icontains">> ->
            [exc |-> "none", passed |-> Within(lower(check.expected), lower(output_text))]
      [] check.type = <<"not_contains">> ->
            [exc |-> "none", passed |-> ~Within(check.expected, output_text)]
      [] check.type = <<"regex">> ->
            IF re_search(check.expected, output_text) = "re.error"
            THEN [exc |-> "re.error", passed |-> FALSE]
            ELSE [exc |-> "none", passed |-> re_search(check.expected, output_text) = "match"]
      [] check.type = <<"max_words">> ->
            [exc |-> "none", passed |-> check_max_words(check.expected, output_text)]
      [] OTHER -> [exc |-> "none", passed |-> FALSE]          \* unsupported check

\* evaluate_expected_constraints: {total, passed, results}, or the exception
\* of the first check that raises
evaluate_expected_constraints(raw_constraints, output_text) ==
    LET checks == parse_constraints(raw_constraints)
        results == [k \in DOMAIN checks |->
                       [type |-> checks[k].type, expected |-> checks[k].expected,
                        passed |-> Check(checks[k], output_text).passed]]
        raising == {k \in DOMAIN checks : Check(checks[k], output_text).exc # "none"}
    IN IF raising # {}
       THEN [exc |-> Check(checks[Min(raising)], output_text).exc,
             total |-> 0, passed |-> 0, results |-> << >>]
       ELSE [exc |-> "none", total |-> Len(results),
             passed |-> Cardinality({k \in DOMAIN results : results[k].passed}),
             results |-> results]

\* ------------------------------------------------- the last session
\* Output upsert of the last session of _execute_item_attempt
UpsertOutput(tbl, i, streamed_parts) ==
    IF HasRow(tbl, i)
    THEN [tbl EXCEPT ![FirstRow(tbl, i)].streamed_text = streamed_parts]
    ELSE Append(tbl, [run_item_id |-> i, streamed_text |-> streamed_parts])

\* (mutant) an existing Metric row keeps its error_flag
UpsertMetricKeepFlag(tbl, i) ==
    IF HasRow(tbl, i) THEN tbl
    ELSE Append(tbl, [run_item_id |-> i, error_flag |-> FALSE])

\* Metric upsert of the last session of _execute_item_attempt
UpsertMetric(tbl, i) ==
    IF HasRow(tbl, i)
    THEN [tbl EXCEPT ![FirstRow(tbl, i)].error_flag = FALSE]
    ELSE Append(tbl, [run_item_id |-> i, error_flag |-> FALSE])

\* The end of _execute_item_attempt: the evaluator on the test's
\* expected_constraints and the output text (the streamed parts joined), then
\* the last session: Output and Metric upserts, the item's terminal status,
\* item.metrics, item.assertions if there is any check, and item.completed;
\* then _execute_item returns.  ev is the telemetry table as the tool loop
\* left it.
Finalize(ev, exhausted, tool_messages) ==
    /\ semaphores' = release(semaphores, semaphore_key)
    /\ LET assertion_summary ==
               evaluate_expected_constraints(w.expected_constraints, w.streamed_parts)
       IN IF assertion_summary.exc # "none"
          THEN \* the evaluator raises: the exception leaves the attempt
               /\ telemetry_events' =
                    emit_event(ev, w.run_id, "item.error",
                               ErrorPayload(assertion_summary.exc, w.attempt + 1,
                                            w.attempt < w.retries),
                               w.item)
               /\ w' = AttemptExcept([w EXCEPT !.tool_messages = tool_messages])
               /\ UNCHANGED <<run_items, outputs, metrics>>
          ELSE /\ outputs' = UpsertOutput(outputs, w.item, w.streamed_parts)
               /\ metrics' = UpsertMetric(metrics, w.item)
               /\ run_items' = [run_items EXCEPT ![w.item].status =
                                   IF exhausted THEN "PARTIAL_TOOL_SUPPORT" ELSE "COMPLETED"]
               /\ telemetry_events' =
                    LET met == emit_event(ev, w.run_id, "item.metrics", NoPayload, w.item)
                        asr == IF assertion_summary.total > 0
                               THEN emit_event(met, w.run_id, "item.assertions", NoPayload, w.item)
                               ELSE met
                    IN emit_event(asr, w.run_id, "item.completed",
                                  StatusPayload(IF exhausted THEN "PARTIAL_TOOL_SUPPORT"
                                                ELSE "COMPLETED"),
                                  w.item)
               /\ w' = [AdvancePos(w) EXCEPT
                          !.tool_messages = tool_messages,
                          !.fin = [item |-> w.item, started |-> w.started, ok |-> TRUE]]

\* (mutant) ttft.recorded after the token.delta of the first token
OnTokenTtftAfter(token) ==
    /\ w.pc = "generating"
    /\ Len(w.streamed_parts) < MaxTokens
    /\ w' = [w EXCEPT !.streamed_parts = Append(@, token)]
    /\ telemetry_events' =
         LET ev == emit_event(telemetry_events, w.run_id, "token.delta",
                              [NoPayload EXCEPT !.token = token], w.item)
         IN IF w.streamed_parts = << >>
            THEN emit_event(ev, w.run_id, "ttft.recorded", NoPayload, w.item)
            ELSE ev
    /\ UNCHANGED <<call, semaphores, dbvars, runs, run_items, outputs, metrics, tool_calls, queue,
                   judge, served, judge_results, subs>>

\* on_token, awaited by provider_client.generate for every content chunk:
\* the token joins streamed_parts of this attempt, ttft.recorded on the first
\* one, token.delta {token}.  A text is the sequence of its characters and a
\* token is one character.
OnToken(token) ==
    /\ w.pc = "generating"
    /\ Len(w.streamed_parts) < MaxTokens
    /\ w' = [w EXCEPT !.streamed_parts = Append(@, token)]
    /\ telemetry_events' =
         emit_event(IF w.streamed_parts = << >>
                    THEN emit_event(telemetry_events, w.run_id, "ttft.recorded", NoPayload, w.item)
                    ELSE telemetry_events,
                    w.run_id, "token.delta", [NoPayload EXCEPT !.token = token], w.item)
    /\ UNCHANGED <<call, semaphores, dbvars, runs, run_items, outputs, metrics, tool_calls, queue,
                   judge, served, judge_results, subs>>

\* generate returns text and no tool call (native or fallback): break
GenerateText ==
    /\ w.pc = "generating"
    /\ Finalize(telemetry_events, FALSE, w.tool_messages)
    /\ UNCHANGED <<call, dbvars, runs, tool_calls, queue, judge, served, judge_results, subs>>

\* A tool call of a response: the tool's name and its argument.
Call(name, arg) == [name |-> name, arg |-> arg]

\* ast.parse and _safe_eval on an expression: the value, or the exception.
SafeEval(expression) ==
    CASE expression = "1+1" -> "value"
      [] expression = "1/0" -> "ZeroDivisionError"
      [] expression = "1+"  -> "SyntaxError"
      [] OTHER              -> "ToolExecutionError"      \* Unsupported expression

\* (mutant) calculator lets the exceptions of the evaluation through
calculatorUnwrapped(expression) ==
    [exc |-> IF SafeEval(expression) = "value" THEN "none" ELSE SafeEval(expression),
     result |-> "result"]

\* calculator: every exception of the evaluation becomes a ToolExecutionError
calculator(expression) ==
    [exc |-> IF SafeEval(expression) = "value" THEN "none" ELSE "ToolExecutionError",
     result |-> "result"]

\* json_validate: {"valid": ...}; only JSONDecodeError is caught, and on
\* deeply nested brackets json.loads raises RecursionError
json_validate(json_string) ==
    CASE json_string = "{}" -> [exc |-> "none", result |-> "valid"]
      [] json_string = "[[[[...." -> [exc |-> "RecursionError", result |-> ""]
      [] OTHER -> [exc |-> "none", result |-> "invalid"]

\* execute_tool: the result, or the exception it raises
execute_tool(tool_name, arg) ==
    CASE tool_name = "calculator" -> calculator(arg)
      [] tool_name = "json_validate" -> json_validate(arg)
      [] tool_name = "extract_code_blocks" -> [exc |-> "none", result |-> "blocks"]
      [] OTHER -> [exc |-> "ToolExecutionError", result |-> ""]      \* Unknown tool

\* for tool in tool_calls: execute_tool under except ToolExecutionError, the
\* ToolCall row, tool.call.executed, the tool message.  st holds the tables as
\* the calls so far left them; any other exception leaves the loop at once.
RECURSIVE ExecuteTools(_, _)
ExecuteTools(st, tool_calls_left) ==
    IF tool_calls_left = << >> THEN st
    ELSE LET tool == Head(tool_calls_left)
             res == execute_tool(tool.name, tool.arg)
             status == IF res.exc = "none" THEN "ok" ELSE "error"
             result == IF res.exc = "none" THEN res.result ELSE "error"
         IN IF res.exc \notin {"none", "ToolExecutionError"}
            THEN [st EXCEPT !.exc = res.exc]
            ELSE ExecuteTools(
                   [tool_calls |-> Append(st.tool_calls,
                                     [run_item_id |-> w.item, loop_index |-> w.loop_idx,
                                      tool_name |-> tool.name, args |-> tool.arg,
                                      status |-> status, result |-> result]),
                    ev |-> emit_event(st.ev, w.run_id, "tool.call.executed",
                                      StatusPayload(status), w.item),
                    tool_messages |-> st.tool_messages + 1,
                    exc |-> "none"],
                   Tail(tool_calls_left))

\* (mutant) the first round of an attempt starts from a table without the
\* item's rows
ToolRoundOverwrites(response_tool_calls) ==
    LET kept == IF w.loop_idx = 0
                THEN SelectSeq(tool_calls, LAMBDA x : x.run_item_id # w.item)
                ELSE tool_calls
        st == ExecuteTools([tool_calls |-> kept, ev |-> telemetry_events,
                            tool_messages |-> w.tool_messages, exc |-> "none"],
                           response_tool_calls)
    IN IF st.exc # "none" THEN st
       ELSE [st EXCEPT !.ev = emit_event(st.ev, w.run_id, "tool.loop.continue",
                                         [NoPayload EXCEPT !.loop = w.loop_idx], w.item)]

\* The tool calls of one response executed in turn, then tool.loop.continue
ToolRound(response_tool_calls) ==
    LET st == ExecuteTools([tool_calls |-> tool_calls, ev |-> telemetry_events,
                            tool_messages |-> w.tool_messages, exc |-> "none"],
                           response_tool_calls)
    IN IF st.exc # "none" THEN st
       ELSE [st EXCEPT !.ev = emit_event(st.ev, w.run_id, "tool.loop.continue",
                                         [NoPayload EXCEPT !.loop = w.loop_idx], w.item)]

\* An exception of a tool leaves _execute_item_attempt: except Exception in
\* _execute_item, with the rows and events written before it.
ToolRaise(st) ==
    /\ tool_calls' = st.tool_calls
    /\ telemetry_events' = emit_event(st.ev, w.run_id, "item.error",
                                      ErrorPayload(st.exc, w.attempt + 1, w.attempt < w.retries),
                                      w.item)
    /\ w' = AttemptExcept(w)
    /\ semaphores' = release(semaphores, semaphore_key)
    /\ UNCHANGED <<run_items, outputs, metrics>>

\* (mutant) the tool loop takes one pass more than tool_loop_limit
GenerateToolCallOnePassMore(response_tool_calls) ==
    /\ w.pc = "generating"
    /\ w.loop_idx < tool_loop_limit
    /\ LET st == ToolRound(response_tool_calls)
       IN IF st.exc # "none" THEN ToolRaise(st)
          ELSE /\ tool_calls' = st.tool_calls
               /\ telemetry_events' = emit_event(st.ev, w.run_id, "request.sent",
                                                 [NoPayload EXCEPT !.attempt = w.attempt + 1,
                                                                   !.loop = w.loop_idx + 1],
                                                 w.item)
               /\ w' = [w EXCEPT !.loop_idx = @ + 1, !.tool_messages = st.tool_messages]
               /\ UNCHANGED <<semaphores, run_items, outputs, metrics>>
    /\ UNCHANGED <<call, dbvars, runs, queue, judge, served, judge_results, subs>>

\* generate returns tool calls before the last pass: execute them, next pass
GenerateToolCall(response_tool_calls) ==
    /\ w.pc = "generating"
    /\ w.loop_idx < tool_loop_limit - 1
    /\ LET st == ToolRound(response_tool_calls)
       IN IF st.exc # "none" THEN ToolRaise(st)
          ELSE /\ tool_calls' = st.tool_calls
               /\ telemetry_events' = emit_event(st.ev, w.run_id, "request.sent",
                                                 [NoPayload EXCEPT !.attempt = w.attempt + 1,
                                                                   !.loop = w.loop_idx + 1],
                                                 w.item)
               /\ w' = [w EXCEPT !.loop_idx = @ + 1, !.tool_messages = st.tool_messages]
               /\ UNCHANGED <<semaphores, run_items, outputs, metrics>>
    /\ UNCHANGED <<call, dbvars, runs, queue, judge, served, judge_results, subs>>

\* generate returns tool calls in the last pass: tool_loop_exhausted
GenerateToolCallLast(response_tool_calls) ==
    /\ w.pc = "generating"
    /\ w.loop_idx = tool_loop_limit - 1
    /\ LET st == ToolRound(response_tool_calls)
       IN IF st.exc # "none" THEN ToolRaise(st)
          ELSE /\ tool_calls' = st.tool_calls
               /\ Finalize(emit_event(st.ev, w.run_id, "tool.loop.exhausted", NoPayload, w.item),
                           TRUE, st.tool_messages)
    /\ UNCHANGED <<call, dbvars, runs, queue, judge, served, judge_results, subs>>

\* generate raises (ProviderError, timeout)
GenerateRaise ==
    /\ w.pc = "generating"
    /\ telemetry_events' = emit_event(telemetry_events, w.run_id, "item.error",
                                      ErrorPayload("ProviderError", w.attempt + 1, w.attempt < w.retries),
                                      w.item)
    /\ w' = AttemptExcept(w)
    /\ semaphores' = release(semaphores, semaphore_key)
    /\ UNCHANGED <<call, dbvars, runs, run_items, outputs, metrics, tool_calls, queue,
                   judge, served, judge_results, subs>>

\* await asyncio.sleep(backoff) returns: next attempt
BackoffDone ==
    /\ w.pc = "sleep"
    /\ w' = [w EXCEPT !.pc = "attempt", !.attempt = @ + 1]
    /\ UNCHANGED <<call, semaphores, dbvars, runs, run_items, outputs, metrics, tool_calls,
                   telemetry_events, queue, judge, served, judge_results, subs>>

\* if not metric: db.add(Metric(error_flag=True))
FailMetric(tbl, i) ==
    IF HasRow(tbl, i) THEN tbl
    ELSE Append(tbl, [run_item_id |-> i, error_flag |-> TRUE])

\* _execute_item, after the attempts: FAILED, Metric if none, item.completed
ItemFail ==
    /\ w.pc = "item_fail"
    /\ run_items' = [run_items EXCEPT ![w.item].status = "FAILED"]
    /\ metrics' = FailMetric(metrics, w.item)
    /\ telemetry_events' = emit_event(telemetry_events, w.run_id, "item.completed",
                                      StatusPayload("FAILED"), w.item)
    /\ w' = [AdvancePos(w) EXCEPT
               !.fin = [item |-> w.item, started |-> w.started, ok |-> FALSE]]
    /\ UNCHANGED <<call, semaphores, dbvars, runs, outputs, tool_calls, queue, judge, served, judge_results, subs>>

\* (mutant) FAILED as soon as one item failed
FinalStatusAnyFailed(r) ==
    IF \E i \in ItemsOfRun(r) : run_items[i].status = "FAILED"
    THEN "FAILED" ELSE "COMPLETED"

\* RunStatus.FAILED if total_items > 0 and failed_items == total_items
FinalStatus(r) ==
    LET total_items == Cardinality(ItemsOfRun(r))
        failed_items == Cardinality({i \in ItemsOfRun(r) : run_items[i].status = "FAILED"})
    IN IF total_items > 0 /\ failed_items = total_items THEN "FAILED" ELSE "COMPLETED"

\* (mutant) run.completed always says COMPLETED
RunEndSaysCompleted ==
    /\ w.pc = "run_end"
    /\ runs' = [runs EXCEPT ![w.run_id].status = FinalStatus(w.run_id)]
    /\ telemetry_events' = emit_event(telemetry_events, w.run_id, "run.completed",
                                      StatusPayload("COMPLETED"), NULL)
    /\ w' = WIdle
    /\ UNCHANGED <<call, semaphores, dbvars, run_items, outputs, metrics, tool_calls, queue, judge, served, judge_results, subs>>

\* (mutant) the terminal status is committed and run.completed is not yet
\* in the log when the worker gives way
RunEndStatusOnly ==
    /\ w.pc = "run_end"
    /\ runs' = [runs EXCEPT ![w.run_id].status = FinalStatus(w.run_id)]
    /\ w' = WIdle
    /\ UNCHANGED <<call, semaphores, dbvars, run_items, outputs, metrics, tool_calls,
                   telemetry_events, queue, judge, served, judge_results, subs>>

\* _execute_run, last session: terminal status, run.completed
RunEnd ==
    /\ w.pc = "run_end"
    /\ runs' = [runs EXCEPT ![w.run_id].status = FinalStatus(w.run_id)]
    /\ telemetry_events' = emit_event(telemetry_events, w.run_id, "run.completed",
                                      StatusPayload(FinalStatus(w.run_id)), NULL)
    /\ w' = WIdle
    /\ UNCHANGED <<call, semaphores, dbvars, run_items, outputs, metrics, tool_calls, queue, judge, served, judge_results, subs>>

\* (mutant) the exception of _execute_run ends the worker task
WorkerExceptDies ==
    /\ w.pc = "run_load"
    /\ ~suite_alive
    /\ runs' = [runs EXCEPT ![w.run_id].status = "FAILED"]
    /\ telemetry_events' = emit_event(telemetry_events, w.run_id, "run.completed",
                                      [StatusPayload("FAILED") EXCEPT !.error = "Suite not found"], NULL)
    /\ w' = [WIdle EXCEPT !.pc = "dead"]
    /\ UNCHANGED <<call, semaphores, dbvars, run_items, outputs, metrics, tool_calls, queue, judge, served, judge_results, subs>>

\* _execute_run, second session: raise RuntimeError("Suite not found ...");
\* _worker_loop, except Exception: FAILED, run.completed {status, error}
WorkerExcept ==
    /\ w.pc = "run_load"
    /\ ~suite_alive
    /\ runs' = [runs EXCEPT ![w.run_id].status = "FAILED"]
    /\ telemetry_events' = emit_event(telemetry_events, w.run_id, "run.completed",
                                      [StatusPayload("FAILED") EXCEPT !.error = "Suite not found"], NULL)
    /\ w' = WIdle
    /\ UNCHANGED <<call, semaphores, dbvars, run_items, outputs, metrics, tool_calls, queue, judge, served, judge_results, subs>>

\* ------------------------------------------- entity endpoints (thread pool)
delete_car(c) ==
    /\ c \in cars
    /\ cars' = cars \ {c}
    /\ served' = [served EXCEPT !.deletes = @ + 1]
    /\ UNCHANGED <<call, semaphores, suite_alive, connections, retry_count, tests, expected_constraints,
                   settings_max_in_flight, runs, run_items, outputs,
                   metrics, tool_calls, telemetry_events, queue, w, judge, judge_results, subs>>

\* Connection.cars is cascade="all, delete-orphan": its cars go with it
delete_connection(k) ==
    /\ k \in connections
    /\ connections' = connections \ {k}
    /\ cars' = {c \in cars : connection_id(c) # k}
    /\ served' = [served EXCEPT !.deletes = @ + 1]
    /\ UNCHANGED <<call, semaphores, suite_alive, retry_count, tests, expected_constraints,
                   settings_max_in_flight, runs, run_items, outputs,
                   metrics, tool_calls, telemetry_events, queue, w, judge, judge_results, subs>>

\* Suite.tests is cascade="all, delete-orphan": its tests go with it
delete_suite ==
    /\ suite_alive
    /\ suite_alive' = FALSE
    /\ served' = [served EXCEPT !.deletes = @ + 1]
    /\ UNCHANGED <<call, semaphores, cars, connections, retry_count, tests, expected_constraints,
                   settings_max_in_flight, runs, run_items, outputs,
                   metrics, tool_calls, telemetry_events, queue, w, judge, judge_results, subs>>

\* The TestCase rows an update_suite request may leave: two tests of ids 2 and
\* 3, in either order of order_index (SQLite gives a new row the largest id of
\* the table plus one, so the ids of deleted rows are given again).
TestLists == {<<2, 3>>, <<3, 2>>}

\* update_suite with payload.tests: the suite's TestCase rows are deleted and
\* the payload's tests are added, each with the payload's expected_constraints
\* (here one text for all the tests of a payload).
update_suite(payload_tests, payload_constraints) ==
    /\ suite_alive                                               \* else 404
    /\ tests' = payload_tests
    /\ expected_constraints' = [t \in Range(payload_tests) |-> payload_constraints]
    /\ served' = [served EXCEPT !.updates = @ + 1]
    /\ UNCHANGED <<call, semaphores, suite_alive, cars, connections, retry_count,
                   settings_max_in_flight, runs, run_items, outputs,
                   metrics, tool_calls, telemetry_events, queue, w, judge, judge_results, subs>>

\* ------------------------------------------------- the executor object
\* The values an update_provider_settings request may give max_in_flight.
MaxInFlightValues == {0, 1, 2}

\* update_provider_settings with an item for the provider type:
\* row.max_in_flight = item.max_in_flight
update_provider_settings(item_max_in_flight) ==
    /\ settings_max_in_flight' = item_max_in_flight
    /\ served' = [served EXCEPT !.settings = @ + 1]
    /\ UNCHANGED <<call, semaphores, suite_alive, cars, connections, retry_count, tests, expected_constraints,
                   runs,
                   run_items, outputs, metrics, tool_calls, telemetry_events, queue, w,
                   judge, judge_results, subs>>

\* The worker task after stop(): self._worker_task = None.
WStopped == [WIdle EXCEPT !.pc = "stopped"]

\* The awaits of the worker task, where task.cancel() raises CancelledError:
\* queue.get(), provider_client.generate, asyncio.sleep(backoff).
WorkerAwaits == {"idle", "generating", "sleep"}

\* (mutant) the cancelled attempt keeps its permit
StopKeepsPermit ==
    /\ w.pc \in WorkerAwaits
    /\ w' = WStopped
    /\ served' = [served EXCEPT !.stops = @ + 1]
    /\ UNCHANGED <<call, semaphores, dbvars, runs, run_items, outputs, metrics, tool_calls,
                   telemetry_events, queue, judge, judge_results, subs>>

\* (mutant) the cancelled run is marked FAILED as for an Exception
StopFailsRun ==
    /\ w.pc \in WorkerAwaits
    /\ w' = WStopped
    /\ semaphores' = IF w.pc = "generating" THEN release(semaphores, semaphore_key)
                     ELSE semaphores
    /\ runs' = IF w.run_id = NULL THEN runs ELSE [runs EXCEPT ![w.run_id].status = "FAILED"]
    /\ served' = [served EXCEPT !.stops = @ + 1]
    /\ UNCHANGED <<call, dbvars, run_items, outputs, metrics, tool_calls,
                   telemetry_events, queue, judge, judge_results, subs>>

\* stop(): the worker task is cancelled at the await it is suspended in.
\* CancelledError is no Exception: neither _execute_item nor _worker_loop
\* catches it, the async with of the attempt gives the permit back, and the
\* task ends.  _queue and _semaphores stay as they are.
stop ==
    /\ w.pc \in WorkerAwaits
    /\ w' = WStopped
    /\ semaphores' = IF w.pc = "generating" THEN release(semaphores, semaphore_key)
                     ELSE semaphores
    /\ served' = [served EXCEPT !.stops = @ + 1]
    /\ UNCHANGED <<call, dbvars, runs, run_items, outputs, metrics, tool_calls,
                   telemetry_events, queue, judge, judge_results, subs>>

\* start() when there is no worker task: a new _worker_loop task
start ==
    /\ w.pc = "stopped"
    /\ w' = WIdle
    /\ UNCHANGED <<call, semaphores, dbvars, runs, run_items, outputs, metrics, tool_calls,
                   telemetry_events, queue, judge, served, judge_results, subs>>

\* ---------------------------------------------------------- stream_run
\* after_seq: int | None = Query(default=None, ge=0)
AfterSeqValues == {Absent, IntVal(0), IntVal(2)}
\* Last-Event-ID: any header text (absent or empty, not an integer, an integer)
LastEventIdValues == {Absent, Junk, IntVal(-1), IntVal(5)}

\* stream_run: start_after, and event_generator: current_seq = start_after or 0.
\* int(last_event_id) is taken only when after_seq is None; an absent, empty
\* or non-integer header gives 0.
StartCursor(after_seq, last_event_id) ==
    LET start_after == IF after_seq.kind = "int" THEN after_seq.val
                       ELSE IF last_event_id.kind = "int" THEN last_event_id.val
                       ELSE 0
    IN IF start_after = 0 THEN 0 ELSE start_after

\* The indices in S of the table ev, ordered by (seq_no, row id) ascending.
RECURSIVE OrderBySeq(_, _)
OrderBySeq(ev, S) ==
    IF S = {} THEN << >>
    ELSE LET m == CHOOSE i \in S : \A j \in S :
                     \/ ev[i].seq_no < ev[j].seq_no
                     \/ ev[i].seq_no = ev[j].seq_no /\ i <= j
         IN <<ev[m]>> \o OrderBySeq(ev, S \ {m})

\* list_events_after(db, run_id, after_seq)
list_events_after(ev, r, after) ==
    OrderBySeq(ev, {i \in DOMAIN ev : ev[i].run_id = r /\ ev[i].seq_no > after})

\* stream_run up to the StreamingResponse: the 404 check and the cursor
stream_run(s, r, after_seq, last_event_id) ==
    /\ subs[s].pc = "none"
    /\ r \in DOMAIN runs                                          \* else 404
    /\ subs' = [subs EXCEPT ![s] =
                  [pc |-> "polling", run_id |-> r, after_seq |-> after_seq,
                   last_event_id |-> last_event_id,
                   start |-> StartCursor(after_seq, last_event_id),
                   current_seq |-> StartCursor(after_seq, last_event_id),
                   delivered |-> << >>]]
    /\ UNCHANGED <<call, semaphores, dbvars, runs, run_items, outputs, metrics, tool_calls,
                   telemetry_events, queue, w, judge, served, judge_results>>

\* (mutant) the loop ends as soon as the run is terminal
StreamEndsOnTerminal(status, events) == status \in RunTerminal

\* event_generator: if run and run.status in (COMPLETED, FAILED) and not events: break
StreamEnds(status, events) == status \in RunTerminal /\ events = << >>

\* event_generator, one pass of the loop: the poll (events after the cursor and
\* the run, read in one session), the events yielded in order, the break test
\* on what the poll read; otherwise the sleep.
Poll(s) ==
    /\ subs[s].pc = "polling"
    /\ LET events == list_events_after(telemetry_events, subs[s].run_id, subs[s].current_seq)
       IN subs' = [subs EXCEPT
                     ![s].delivered = @ \o [k \in 1..Len(events) |-> events[k].seq_no],
                     ![s].current_seq = IF events = << >> THEN @ ELSE events[Len(events)].seq_no,
                     ![s].pc = IF StreamEnds(runs[subs[s].run_id].status, events)
                               THEN "ended" ELSE "polling"]
    /\ UNCHANGED <<call, semaphores, dbvars, runs, run_items, outputs, metrics, tool_calls,
                   telemetry_events, queue, w, judge, served, judge_results>>

\* The client of connection 1 loses the connection ...
Drop ==
    /\ subs[1].pc = "polling"
    /\ subs' = [subs EXCEPT ![1].pc = "dropped"]
    /\ UNCHANGED <<call, semaphores, dbvars, runs, run_items, outputs, metrics, tool_calls,
                   telemetry_events, queue, w, judge, served, judge_results>>

\* ... and reconnects as connection 2 with Last-Event-ID = the last id it
\* received, with or without the after_seq of its first request.
Reconnect ==
    /\ subs[1].pc = "dropped"
    /\ subs[1].delivered # << >>
    /\ \E a \in {Absent, subs[1].after_seq} :
          stream_run(2, subs[1].run_id, a, IntVal(subs[1].delivered[Len(subs[1].delivered)]))

\* ---------------------------------------------------------- judge_run
\* The run items of r that have an Output row and whose Test exists, by id.
RECURSIVE Judged(_, _)
Judged(r, i) ==
    IF i > Len(run_items) THEN << >>
    ELSE IF run_items[i].run_id = r /\ HasRow(outputs, i)
            /\ suite_alive /\ run_items[i].test_id \in Range(tests)
         THEN <<i>> \o Judged(r, i + 1)
         ELSE Judged(r, i + 1)

JudgeIdle == [pc |-> "idle", run_id |-> NULL, car |-> NULL, todo |-> << >>, done |-> << >>]

\* delete(JudgeResult).where(JudgeResult.run_id == run_id)
DeleteJudgeResults(tbl, r) == SelectSeq(tbl, LAMBDA x : x.run_id # r)

\* The cars of the rows, in the order of their first row (dict insertion order).
RECURSIVE CarsOf(_)
CarsOf(rows) ==
    IF rows = << >> THEN << >>
    ELSE LET rest == CarsOf(SubSeq(rows, 1, Len(rows) - 1))
             c == rows[Len(rows)].car_id
         IN IF c \in Range(rest) THEN rest ELSE Append(rest, c)

\* A score is a fraction num / den: den is 1 in a per-item row.
Score(n) == [num |-> n, den |-> 1]

RECURSIVE SumOf(_, _)
SumOf(rows, field) ==
    IF rows = << >> THEN 0 ELSE rows[1][field].num + SumOf(Tail(rows), field)

\* (mutant) the aggregate is the sum of the rows' scores
MeanAsSum(rows, field) == [num |-> SumOf(rows, field), den |-> 1]

\* sum(i.field for i in items) / total, over per-item rows
Mean(rows, field) == [num |-> SumOf(rows, field), den |-> Len(rows)]

\* judge_run after the item loop: the per-item rows of the run as the table
\* holds them, one aggregate row per car among them, one run aggregate row
\* when there is any.  tbl is the table after the commit of the item loop.
JudgeAggregates(tbl, r) ==
    LET rows == SelectSeq(tbl, LAMBDA x : x.run_id = r /\ x.run_item_id # NULL)
        by_car == CarsOf(rows)
    IN [k \in 1..Len(by_car) |->
           [run_id |-> r, run_item_id |-> NULL, car_id |-> by_car[k],
            count |-> Len(SelectSeq(rows, LAMBDA x : x.car_id = by_car[k])),
            writing_score |-> Mean(SelectSeq(rows, LAMBDA x : x.car_id = by_car[k]), "writing_score"),
            overall |-> Mean(SelectSeq(rows, LAMBDA x : x.car_id = by_car[k]), "overall"),
            rationale |-> "Per-car aggregate"]]
       \o (IF rows = << >> THEN << >>
           ELSE <<[run_id |-> r, run_item_id |-> NULL, car_id |-> NULL,
                   count |-> Len(rows),
                   writing_score |-> Mean(rows, "writing_score"),
                   overall |-> Mean(rows, "overall"),
                   rationale |-> "Run aggregate"]>>)

\* judge_run from the commit after the item loop to its end: the aggregates
\* and judge.completed {item_scores}.  done are the rows the session holds.
JudgeFinish(j, r, tbl, ev, done) ==
    /\ judge_results' = (tbl \o done) \o JudgeAggregates(tbl \o done, r)
    /\ telemetry_events' = emit_event(ev, r, "judge.completed",
                                      [NoPayload EXCEPT !.item_scores = Len(done)], NULL)
    /\ judge' = [judge EXCEPT ![j] = JudgeIdle]

\* judge_run up to its first await: the 404 checks, judge.started, the delete
\* of the run's JudgeResult rows, the items to judge; with none to judge it
\* runs to its end.
JudgeStart(j, r) ==
    /\ judge[j].pc = "idle"
    /\ r \in DOMAIN runs                                          \* else 404
    /\ \E judge_car_id \in cars :                                 \* else 404
         /\ connection_id(judge_car_id) \in connections           \* else 404
         /\ LET started == emit_event(telemetry_events, r, "judge.started", NoPayload, NULL)
                todo == Judged(r, 1)
            IN IF todo = << >>
               THEN JudgeFinish(j, r, DeleteJudgeResults(judge_results, r), started, << >>)
               ELSE /\ telemetry_events' = started
                    /\ judge_results' = DeleteJudgeResults(judge_results, r)
                    /\ judge' = [judge EXCEPT ![j] = [pc |-> "generating", run_id |-> r,
                                                      car |-> judge_car_id,
                                                      todo |-> todo, done |-> << >>]]
    /\ served' = [served EXCEPT !.judges = @ + 1]
    /\ UNCHANGED <<call, semaphores, dbvars, runs, run_items, outputs, metrics, tool_calls, queue, w, subs>>

\* What the judge model may answer: a JSON object, a JSON object inside a
\* markdown fence, prose.  coding_score and tool_score go the way of
\* writing_score in every line of the code and are left out.
JudgeText(kind, writing_score, overall) ==
    [kind |-> kind, writing_score |-> writing_score, overall |-> overall]

JudgeTexts ==
    {JudgeText("json", 10, 4), JudgeText("fenced", 0, 10), JudgeText("json", 3, 11),
     JudgeText("prose", 0, 0)}

\* JudgePayload: Field(ge=0, le=10)
ValidScore(x) == x >= 0 /\ x <= 10

\* parse_judge_json: the payload, or the exception (no JSON object in the
\* text, or a score out of range)
parse_judge_json(raw_text) ==
    IF raw_text.kind \notin {"json", "fenced"} THEN [exc |-> "ValidationError"]
    ELSE IF ~(ValidScore(raw_text.writing_score) /\ ValidScore(raw_text.overall))
    THEN [exc |-> "ValidationError"]
    ELSE [exc |-> "none", writing_score |-> raw_text.writing_score,
          overall |-> raw_text.overall, rationale |-> "parsed"]

\* try: parse_judge_json(raw_text) except Exception: the zero scores
ParsedOrZero(raw_text) ==
    IF parse_judge_json(raw_text).exc = "none" THEN parse_judge_json(raw_text)
    ELSE [exc |-> "none", writing_score |-> 0, overall |-> 0,
          rationale |-> "Judge JSON parse failed"]

\* The JudgeResult row of one item: the parsed scores, or on a parse or
\* validation failure the zero scores with "Judge JSON parse failed".
JudgeRow(r, i, raw_text) ==
    [run_id |-> r, run_item_id |-> i, car_id |-> run_items[i].car_id, count |-> 1,
     writing_score |-> Score(ParsedOrZero(raw_text).writing_score),
     overall |-> Score(ParsedOrZero(raw_text).overall),
     rationale |-> ParsedOrZero(raw_text).rationale]

\* provider_client.generate returns to judge_run, with a text that
\* parse_judge_json accepts or not: the item's row is added to the session;
\* then the next item, or after the last one the commit and the end.
JudgeGenerateReturn(j, raw_text) ==
    /\ judge[j].pc = "generating"
    /\ LET r == judge[j].run_id
           done == Append(judge[j].done, JudgeRow(r, Head(judge[j].todo), raw_text))
       IN IF Len(judge[j].todo) > 1
          THEN /\ judge' = [judge EXCEPT ![j].todo = Tail(@), ![j].done = done]
               /\ UNCHANGED <<telemetry_events, judge_results>>
          ELSE JudgeFinish(j, r, judge_results, telemetry_events, done)
    /\ UNCHANGED <<call, semaphores, dbvars, runs, run_items, outputs, metrics, tool_calls, queue, w, served, subs>>

\* (mutant) the failure of the judge call fails the run
JudgeGenerateRaiseFailsRun(j) ==
    /\ judge[j].pc = "generating"
    /\ judge' = [judge EXCEPT ![j] = JudgeIdle]
    /\ runs' = [runs EXCEPT ![judge[j].run_id].status = "FAILED"]
    /\ UNCHANGED <<call, semaphores, dbvars, run_items, outputs, metrics, tool_calls, telemetry_events,
                   queue, w, served, judge_results, subs>>

\* provider_client.generate raises in judge_run: nothing catches it, the
\* request ends with the error and the session's pending rows are dropped.
JudgeGenerateRaise(j) ==
    /\ judge[j].pc = "generating"
    /\ judge' = [judge EXCEPT ![j] = JudgeIdle]
    /\ UNCHANGED <<call, semaphores, dbvars, runs, run_items, outputs, metrics, tool_calls, telemetry_events,
                   queue, w, served, judge_results, subs>>

\* ------------------------------------------------------ provider calls
\* Everything but the last call.
store == <<dbvars, semaphores, runs, run_items, outputs, metrics, tool_calls, telemetry_events,
           queue, w, judge, served, judge_results, subs>>

\* Python's None, and what `if x:` takes for false.
None == "<None>"
Truthy(x) == x \notin {None, ""}

ConnectionType ==
    {"OLLAMA", "OPENAI", "ANTHROPIC", "OPENROUTER", "OPENAI_COMPAT", "LLAMACPP_OPENAI", "CUSTOM"}

\* Connection rows: the type, the stored key (none, one that decrypts to
\* "k-db", one that does not decrypt), the name of the environment variable
\* (none, one that is not set, one set to "", one set to "k-env").
Connections ==
    [type : ConnectionType,
     api_key_encrypted : {None, "fernet(k-db)", "not-a-token"},
     api_key_env_var : {None, "UNSET_KEY", "EMPTY_KEY", "SET_KEY"}]

\* os.getenv
getenv(name) ==
    CASE name = "SET_KEY" -> "k-env"
      [] name = "EMPTY_KEY" -> ""
      [] OTHER -> None

\* decrypt_secret: None for an empty value or one that is not a valid token
decrypt_secret(value) ==
    IF ~Truthy(value) THEN None
    ELSE IF value = "fernet(k-db)" THEN "k-db" ELSE None

\* getattr(obj, name, None)
getattr(obj, name) == IF name \in DOMAIN obj THEN obj[name] ELSE None

\* ProviderClient._resolve_api_key: (api_key, source)
resolve_api_key(connection) ==
    LET encrypted_value == getattr(connection, "api_key_encrypted")
        decrypted == IF Truthy(encrypted_value) THEN decrypt_secret(encrypted_value) ELSE None
        env_var == getattr(connection, "api_key_env_var")
        env_value == IF Truthy(env_var) THEN getenv(env_var) ELSE None
    IN IF Truthy(decrypted) THEN <<decrypted, "encrypted_db">>
       ELSE IF Truthy(env_value) THEN <<env_value, "env_var">>
       ELSE <<None, "none">>

\* provider_mode
provider_mode(connection_type) ==
    IF connection_type = "OLLAMA" THEN "ollama" ELSE "openai_compat"

\* ProviderClient.generate: the adapter the call is dispatched to
Adapter(mode) ==
    IF mode = "ollama" THEN "_generate_ollama"
    ELSE IF mode = "anthropic" THEN "_generate_anthropic"
    ELSE "_generate_openai_compat"

\* The connection object generate is given: the executor passes
\* connection_context, a namespace of id, type, base_url and api_key_env_var;
\* judge_run passes the Connection row.
GenerateArgument(caller, connection) ==
    IF caller = "_execute_item_attempt"
    THEN [type |-> connection.type, api_key_env_var |-> connection.api_key_env_var]
    ELSE connection

Callers == {"_execute_item_attempt", "judge_run"}

\* provider_client.generate(connection=...) of one caller on one Connection
\* row: the mode, the adapter, and the key its _headers_for resolves.
generate(caller, connection) ==
    /\ call' = LET arg == GenerateArgument(caller, connection)
               IN [fn |-> "generate", caller |-> caller, connection |-> connection,
                   mode |-> provider_mode(arg.type),
                   adapter |-> Adapter(provider_mode(arg.type)),
                   api_key |-> resolve_api_key(arg)[1],
                   auth_source |-> resolve_api_key(arg)[2]]
    /\ UNCHANGED store

\* ------------------------------------------- constraint evaluator call
\* _execute_item_attempt calls the evaluator on the test's
\* expected_constraints and the output text.
EvaluateConstraints(raw_constraints, output_text) ==
    /\ call = NoCall
    /\ call' = [fn |-> "evaluate_expected_constraints",
                raw_constraints |-> raw_constraints, output_text |-> output_text,
                result |-> evaluate_expected_constraints(raw_constraints, output_text)]
    /\ UNCHANGED store

\* ------------------------------------------------------ compute_metrics
\* An optional integer is Absent (None) or IntVal(n).
Clock == (-1)..MaxMs
OptionalMs == {Absent} \cup {IntVal(n) : n \in 0..MaxMs}
OptionalTokens == {Absent, IntVal(0), IntVal(5)}
WordCounts == {0, 4}                       \* len(output_text.split())

\* estimate_tokens: max(1, int(words * 1.25))
estimate_tokens(words) == Max({1, (words * 5) \div 4})

\* (mutant) generation_ms without the floor of 1
GenerationMsUnclamped(total_latency_ms, ttft_ms) ==
    IF ttft_ms = Absent THEN Absent ELSE IntVal(total_latency_ms - ttft_ms.val)

\* generation_ms = max(1, total_latency_ms - ttft_ms) when ttft_ms is given
GenerationMs(total_latency_ms, ttft_ms) ==
    IF ttft_ms = Absent THEN Absent ELSE IntVal(Max({1, total_latency_ms - ttft_ms.val}))

\* compute_metrics.  tokens_per_sec = output_tokens / (generation_ms / 1000)
\* is kept as the fraction 1000 * output_tokens over generation_ms.
compute_metrics(started_ms, finished_ms, ttft_ms, words, usage_completion_tokens, usage_estimated) ==
    LET total_latency_ms == Max({0, finished_ms - started_ms})
        generation_ms == GenerationMs(total_latency_ms, ttft_ms)
        output_tokens == IF usage_completion_tokens = Absent THEN estimate_tokens(words)
                         ELSE Max({1, usage_completion_tokens.val})
    IN [ttft_ms |-> ttft_ms,
        total_latency_ms |-> total_latency_ms,
        generation_ms |-> generation_ms,
        output_tokens |-> output_tokens,
        output_tokens_estimated |-> IF usage_completion_tokens = Absent THEN TRUE
                                    ELSE usage_estimated,
        tokens_per_sec |-> IF generation_ms # Absent /\ generation_ms.val # 0
                              /\ generation_ms.val > 0
                           THEN [kind |-> "float", num |-> 1000 * output_tokens,
                                 den |-> generation_ms.val]
                           ELSE Absent]

\* _execute_item_attempt computes the metrics of an attempt.
ComputeMetrics(started_ms, finished_ms, ttft_ms, words, usage_completion_tokens, usage_estimated) ==
    /\ call = NoCall
    /\ call' = [fn |-> "compute_metrics", started_ms |-> started_ms,
                finished_ms |-> finished_ms, ttft_ms |-> ttft_ms,
                result |-> compute_metrics(started_ms, finished_ms, ttft_ms, words,
                                           usage_completion_tokens, usage_estimated)]
    /\ UNCHANGED store

\* ------------------------------------------------------ _classify_delta
\* The thresholds: latency in ms, the others in hundredths (0.5, 0.05, 0.05,
\* 0.3).  A delta is Absent (None) or IntVal(n) in the same unit.
Threshold == [latency |-> 50, tps |-> 50, error |-> 5, assertion |-> 5, judge |-> 30]

\* Deltas at a threshold, just inside it, and absent.
DeltaValues(t) == {Absent, IntVal(-t), IntVal(1 - t), IntVal(t - 1), IntVal(t)}

\* One `if delta is not None` block: +1, -1 or 0.  up: a rise is a gain.
Gain(delta, t, up) ==
    IF delta = Absent THEN 0
    ELSE IF up THEN (IF delta.val >= t THEN 1 ELSE IF delta.val <= -t THEN -1 ELSE 0)
    ELSE (IF delta.val <= -t THEN 1 ELSE IF delta.val >= t THEN -1 ELSE 0)

\* (mutant) a score of 2 is still mixed
VerdictStrict(score) ==
    IF score > 2 THEN "improved" ELSE IF score < -2 THEN "regressed" ELSE "mixed"

Verdict(score) ==
    IF score >= 2 THEN "improved" ELSE IF score <= -2 THEN "regressed" ELSE "mixed"

classify_delta(latency_delta, tps_delta, error_delta, assertion_delta, judge_delta) ==
    Verdict(Gain(latency_delta, Threshold.latency, FALSE)
            + Gain(tps_delta, Threshold.tps, TRUE)
            + Gain(error_delta, Threshold.error, FALSE)
            + Gain(assertion_delta, Threshold.assertion, TRUE)
            + Gain(judge_delta, Threshold.judge, TRUE))

\* -delta
Negated(delta) == IF delta = Absent THEN Absent ELSE IntVal(0 - delta.val)

\* compare_runs classifies the deltas of two runs; the same call on the
\* negated deltas is recorded with it.
ClassifyDelta(latency_delta, tps_delta, error_delta, assertion_delta, judge_delta) ==
    /\ call = NoCall
    /\ call' = [fn |-> "_classify_delta",
                deltas |-> [latency |-> latency_delta, tps |-> tps_delta, error |-> error_delta,
                            assertion |-> assertion_delta, judge |-> judge_delta],
                result |-> classify_delta(latency_delta, tps_delta, error_delta,
                                          assertion_delta, judge_delta),
                negated |-> classify_delta(Negated(latency_delta), Negated(tps_delta),
                                           Negated(error_delta), Negated(assertion_delta),
                                           Negated(judge_delta))]
    /\ UNCHANGED store

\* ------------------------------------- OpenAI-compatible tool calls
\* A data line of the stream is "[DONE]" or a chunk whose
\* choices[0].delta.tool_calls holds one fragment.  index is NoIndex when the
\* fragment has no "index" key; id and name are "" when absent; arguments is
\* a text of symbols: "a" followed by "b" is a JSON object, as is "{}".
NoIndex == -1
Done == [kind |-> "done", index |-> NoIndex, id |-> "", name |-> "", arguments |-> << >>]
Fragments ==
    [kind : {"tool_call"}, index : {NoIndex, 0, 1}, id : {"", "x", "y"},
     name : {"", "f", "g"}, arguments : {<<"a">>, <<"b">>}]
DataLines == Fragments \cup {Done}

RECURSIVE LinesUpTo(_)
LinesUpTo(n) ==
    IF n = 0 THEN {<< >>}
    ELSE LET shorter == LinesUpTo(n - 1)
         IN shorter \cup {Append(t, s) : t \in {x \in shorter : Len(x) = n - 1}, s \in DataLines}

\* async for line in resp.aiter_lines(): ... if data == "[DONE]": break
RECURSIVE UntilDone(_)
UntilDone(lines) ==
    IF lines = << >> \/ Head(lines).kind = "done" THEN << >>
    ELSE <<Head(lines)>> \o UntilDone(Tail(lines))

\* tc.get("index", 0)
IndexOf(tc) == IF tc.index = NoIndex THEN 0 ELSE tc.index

\* x or y on strings
Or(x, y) == IF x # "" THEN x ELSE y

\* (mutant) the first id and the first name of an index are kept
MergeKeepsFirst(fragment, tc) ==
    [fragment EXCEPT !.id = Or(fragment.id, tc.id),
                     !.name = Or(fragment.name, tc.name),
                     !.arguments = fragment.arguments \o tc.arguments]

\* fragment["id"] = tc.get("id") or fragment["id"], the same for the name,
\* fragment["arguments"] += func.get("arguments") or ""
Merge(fragment, tc) ==
    [fragment EXCEPT !.id = Or(tc.id, fragment.id),
                     !.name = Or(tc.name, fragment.name),
                     !.arguments = fragment.arguments \o tc.arguments]

\* tool_fragments (a dict: its items in insertion order) after the lines
RECURSIVE tool_fragments(_)
tool_fragments(lines) ==
    IF lines = << >> THEN << >>
    ELSE LET before == tool_fragments(SubSeq(lines, 1, Len(lines) - 1))
             tc == lines[Len(lines)]
             idx == IndexOf(tc)
         IN IF \E k \in DOMAIN before : before[k].idx = idx
            THEN [k \in DOMAIN before |->
                     IF before[k].idx = idx THEN Merge(before[k], tc) ELSE before[k]]
            ELSE Append(before, Merge([idx |-> idx, id |-> "", name |-> "",
                                       arguments |-> << >>], tc))

\* f"call_{n}"
CallId(n) == CASE n = 1 -> "call_1" [] n = 2 -> "call_2" [] n = 3 -> "call_3"
               [] n = 4 -> "call_4" [] OTHER -> "call_n"

\* json.loads(arguments or "{}"), or {"raw": arguments} on JSONDecodeError
ParsedArgs(arguments) ==
    IF arguments \in {<< >>, <<"a", "b">>} THEN [json |-> arguments] ELSE [raw |-> arguments]

\* The tool_calls list built from the fragments (idx is kept with each tool
\* call to tell which fragment it came from).
RECURSIVE ToolCallsOf(_)
ToolCallsOf(fragments) ==
    IF fragments = << >> THEN << >>
    ELSE LET tool_calls_before == ToolCallsOf(SubSeq(fragments, 1, Len(fragments) - 1))
             fragment == fragments[Len(fragments)]
         IN IF fragment.name = "" THEN tool_calls_before
            ELSE Append(tool_calls_before,
                        [idx |-> fragment.idx,
                         id |-> Or(fragment.id, CallId(Len(tool_calls_before) + 1)),
                         name |-> fragment.name,
                         arguments |-> ParsedArgs(fragment.arguments)])

\* _generate_openai_compat: the tool calls of the response to the lines
openai_compat_tool_calls(lines) == ToolCallsOf(tool_fragments(UntilDone(lines)))

\* _generate_openai_compat reads a stream of lines.
GenerateOpenAICompat(lines) ==
    /\ call = NoCall
    /\ call' = [fn |-> "_generate_openai_compat", lines |-> lines,
                tool_calls |-> openai_compat_tool_calls(lines)]
    /\ UNCHANGED store

\* ------------------------------------------------------ specifications
\* The worker when the provider answers every generate call with text or an
\* error (no tool call).
Worker ==
    \/ RunStart
    \/ RunLoad
    \/ LoopConnectionMissing
    \/ ItemBeginReturn
    \/ ItemBegin
    \/ AttemptBeginRaise
    \/ AttemptBegin
    \/ GenerateText
    \/ GenerateRaise
    \/ BackoffDone
    \/ ItemFail
    \/ RunEnd
    \/ WorkerExcept

Deletes ==
    \/ \E c \in CarIds : delete_car(c)
    \/ \E k \in {connection_id(c) : c \in CarIds} : delete_connection(k)
    \/ delete_suite

\* Executor, start-run requests and delete requests.
Next ==
    \/ served.runs < MaxRuns /\ \E ids \in CarIdLists : start_run(ids)
    \/ Worker
    \/ served.deletes < MaxDeletes /\ Deletes

Spec == Init /\ [][Next]_vars

\* Executor with a provider that also answers with tool calls; one car,
\* possibly named twice in car_ids.
NextTools ==
    \/ served.runs < MaxToolRuns /\ \E ids \in {<<1>>, <<1, 1>>} : start_run(ids)
    \/ RunStart
    \/ RunLoad
    \/ ItemBegin
    \/ AttemptBegin
    \/ GenerateText
    \/ GenerateToolCall(<<Call("calculator", "1+1")>>)
    \/ GenerateToolCallLast(<<Call("calculator", "1+1")>>)
    \/ GenerateRaise
    \/ BackoffDone
    \/ ItemFail
    \/ RunEnd

SpecTools == Init /\ [][NextTools]_vars

\* The tool calls a response can hold: one that succeeds; an unknown tool and
\* a failing expression together; an unsupported expression; a syntax error;
\* a json_validate input that json.loads cannot take.
ToolResponses ==
    { <<Call("calculator", "1+1")>>,
      <<Call("nope", ""), Call("calculator", "1/0")>>,
      <<Call("calculator", "x")>>,
      <<Call("calculator", "1+"), Call("json_validate", "{")>>,
      <<Call("json_validate", "[[[[....")>> }

\* One run of one car and one test whose responses hold any of ToolResponses.
NextToolExec ==
    \/ served.runs < MaxToolExecRuns /\ start_run(<<1>>)
    \/ RunStart
    \/ RunLoad
    \/ ItemBegin
    \/ AttemptBegin
    \/ GenerateText
    \/ \E response_tool_calls \in ToolResponses : GenerateToolCall(response_tool_calls)
    \/ \E response_tool_calls \in ToolResponses : GenerateToolCallLast(response_tool_calls)
    \/ BackoffDone
    \/ ItemFail
    \/ RunEnd

SpecToolExec == Init /\ [][NextToolExec]_vars

\* One run of one car and one test whose provider streams tokens.
Tokens == {"a", "b"}

NextTokens ==
    \/ served.runs < MaxTokenRuns /\ start_run(<<1>>)
    \/ RunStart
    \/ RunLoad
    \/ ItemBegin
    \/ AttemptBegin
    \/ \E token \in Tokens : OnToken(token)
    \/ GenerateText
    \/ GenerateRaise
    \/ BackoffDone
    \/ ItemFail
    \/ RunEnd

SpecTokens == Init /\ [][NextTokens]_vars

\* Executor and concurrent judge requests; every run has one car.
NextJudge ==
    \/ served.runs < MaxJudgedRuns /\ start_run(<<1>>)
    \/ RunStart
    \/ RunLoad
    \/ ItemBegin
    \/ AttemptBegin
    \/ GenerateText
    \/ GenerateRaise
    \/ BackoffDone
    \/ ItemFail
    \/ RunEnd
    \/ served.judges < MaxJudgeCalls /\ \E j \in JudgeSlots, r \in DOMAIN runs : JudgeStart(j, r)
    \/ \E j \in JudgeSlots, raw_text \in {JudgeText("json", 10, 4), JudgeText("prose", 0, 0)} :
          JudgeGenerateReturn(j, raw_text)
    \/ \E j \in JudgeSlots : JudgeGenerateRaise(j)

SpecJudge == Init /\ [][NextJudge]_vars

\* Executor and subscriber streams on its runs; every poll loop keeps running.
NextStream ==
    \/ served.runs < MaxStreamRuns /\ start_run(<<1>>)
    \/ RunStart
    \/ RunLoad
    \/ ItemBegin
    \/ AttemptBegin
    \/ GenerateText
    \/ RunEnd
    \/ \E r \in DOMAIN runs, a \in AfterSeqValues, h \in LastEventIdValues : stream_run(1, r, a, h)
    \/ \E s \in SubIds : Poll(s)
    \/ Drop
    \/ Reconnect

SpecStream == Init /\ [][NextStream]_vars /\ \A s \in SubIds : WF_vars(Poll(s))

\* Provider calls of the executor and of judge_run on any Connection row.
NextProvider ==
    \E caller \in Callers, connection \in Connections : generate(caller, connection)

SpecProvider == Init /\ [][NextProvider]_vars

\* The worker and a suite that is deleted under its runs; the worker task is
\* scheduled whenever it can take a step.
WorkerFailSteps ==
    \/ RunStart
    \/ RunLoad
    \/ ItemBeginReturn
    \/ ItemBegin
    \/ AttemptBeginRaise
    \/ AttemptBegin
    \/ GenerateText
    \/ BackoffDone
    \/ ItemFail
    \/ RunEnd
    \/ WorkerExcept

NextWorkerFail ==
    \/ served.runs < MaxFailRuns /\ start_run(<<1>>)
    \/ served.deletes < MaxDeletes /\ delete_suite
    \/ WorkerFailSteps

SpecWorkerFail == Init /\ [][NextWorkerFail]_vars /\ WF_vars(WorkerFailSteps)

\* The constraint evaluator on any constraint text and output text.
NextConstraints ==
    \E raw_constraints \in ConstraintTexts, output_text \in OutputTexts :
        EvaluateConstraints(raw_constraints, output_text)

SpecConstraints == Init /\ [][NextConstraints]_vars

\* compute_metrics on any clock values, ttft, usage and text.
NextMetrics ==
    \E started_ms \in Clock, finished_ms \in Clock, ttft_ms \in OptionalMs, words \in WordCounts,
       usage_completion_tokens \in OptionalTokens, usage_estimated \in BOOLEAN :
        ComputeMetrics(started_ms, finished_ms, ttft_ms, words,
                       usage_completion_tokens, usage_estimated)

SpecMetrics == Init /\ [][NextMetrics]_vars

\* The comparison classifier on any five deltas.
NextClassify ==
    \E latency_delta \in DeltaValues(Threshold.latency), tps_delta \in DeltaValues(Threshold.tps),
       error_delta \in DeltaValues(Threshold.error),
       assertion_delta \in DeltaValues(Threshold.assertion),
       judge_delta \in DeltaValues(Threshold.judge) :
        ClassifyDelta(latency_delta, tps_delta, error_delta, assertion_delta, judge_delta)

SpecClassify == Init /\ [][NextClassify]_vars

\* Judge requests, two at once at most, on a run that has ended; the judge
\* model answers with any of JudgeTexts.
NextJudgeScores ==
    \/ served.runs < MaxScoredRuns /\ start_run(<<1>>)
    \/ RunStart
    \/ RunLoad
    \/ ItemBegin
    \/ AttemptBegin
    \/ GenerateText
    \/ RunEnd
    \/ /\ served.judges < MaxScoreCalls
       /\ \E j \in JudgeSlots, r \in DOMAIN runs :
             runs[r].status \in RunTerminal /\ JudgeStart(j, r)
    \/ \E j \in JudgeSlots, raw_text \in JudgeTexts : JudgeGenerateReturn(j, raw_text)
    \/ \E j \in JudgeSlots : JudgeGenerateRaise(j)

SpecJudgeScores == Init /\ [][NextJudgeScores]_vars

\* Runs of a suite of two tests on two cars, in either order and with a car
\* named twice; the suite's tests may be replaced at any time.
NextOrder ==
    \/ served.runs < MaxOrderRuns /\ \E ids \in {<<1, 2>>, <<2, 1>>, <<1, 1>>} : start_run(ids)
    \/ served.updates < MaxSuiteUpdates /\ \E payload_tests \in TestLists : update_suite(payload_tests, << >>)
    \/ RunStart
    \/ RunLoad
    \/ ItemBeginReturn
    \/ ItemBegin
    \/ AttemptBeginRaise
    \/ AttemptBegin
    \/ GenerateText
    \/ GenerateRaise
    \/ BackoffDone
    \/ ItemFail
    \/ RunEnd

SpecOrder == Init /\ [][NextOrder]_vars

\* The expected_constraints an update_suite payload may give its tests: a
\* regex that does not compile, a max_words value that is no number, a check
\* that the output may pass or fail, a regex that compiles.
PayloadConstraints ==
    { <<"Regex", ":", "(">>, <<"max_words", ":", "a">>,
      <<"contains", ":", "a">>, <<"Regex", ":", "a">> }

\* Runs of one car over a suite whose tests were given constraints by
\* update_suite; the provider answers with text, with tool calls whose tools
\* succeed, or raises.
NextAssertions ==
    \/ served.updates < MaxAssertionUpdates
         /\ \E payload_constraints \in PayloadConstraints :
               update_suite(<<2, 3>>, payload_constraints)
    \/ served.runs < MaxAssertionRuns /\ start_run(<<1>>)
    \/ RunStart
    \/ RunLoad
    \/ ItemBeginReturn
    \/ ItemBegin
    \/ AttemptBeginRaise
    \/ AttemptBegin
    \/ GenerateText
    \/ GenerateToolCall(<<Call("calculator", "1+1")>>)
    \/ GenerateToolCallLast(<<Call("calculator", "1+1")>>)
    \/ GenerateRaise
    \/ BackoffDone
    \/ ItemFail
    \/ RunEnd

SpecAssertions == Init /\ [][NextAssertions]_vars

\* Subscribers that open their stream at cursor 0 on runs of the executor,
\* which end in _execute_run or, their suite deleted, in the handler of the
\* worker loop.
NextSubscriber ==
    \/ served.runs < MaxSubscriberRuns /\ start_run(<<1>>)
    \/ served.deletes < MaxDeletes /\ delete_suite
    \/ WorkerFailSteps
    \/ GenerateRaise
    \/ \E s \in SubIds, r \in DOMAIN runs : stream_run(s, r, Absent, Absent)
    \/ \E s \in SubIds : Poll(s)

SpecSubscriber == Init /\ [][NextSubscriber]_vars

\* The tool calls of a response whose tool raises an exception that
\* execute_tool lets through.
RaisingToolResponse == <<Call("json_validate", "[[[[....")>>

\* The executor object over stop() and start(), with max_in_flight changed
\* by update_provider_settings at any time; runs of one car, whose attempts
\* end with text, with an exception of generate or with one of a tool.
NextExecutor ==
    \/ served.runs < MaxExecutorRuns /\ start_run(<<1>>)
    \/ served.settings < MaxSettingsUpdates
         /\ \E item_max_in_flight \in MaxInFlightValues : update_provider_settings(item_max_in_flight)
    \/ served.stops < MaxStops /\ stop
    \/ start
    \/ RunStart
    \/ RunLoad
    \/ ItemBegin
    \/ AttemptBegin
    \/ GenerateText
    \/ GenerateToolCall(RaisingToolResponse)
    \/ GenerateRaise
    \/ BackoffDone
    \/ ItemFail
    \/ RunEnd

SpecExecutor == Init /\ [][NextExecutor]_vars

\* The OpenAI-compatible adapter on any stream of data lines.
NextOpenAICompat ==
    call = NoCall /\ \E lines \in LinesUpTo(MaxLines) : GenerateOpenAICompat(lines)

SpecOpenAICompat == Init /\ [][NextOpenAICompat]_vars

\* ============================================================ properties
Events(r) == EventsOf(telemetry_events, r)
HasEvent(r, type) == \E k \in DOMAIN telemetry_events :
    telemetry_events[k].run_id = r /\ telemetry_events[k].event_type = type
ItemEvents(i) == {k \in DOMAIN telemetry_events : telemetry_events[k].run_item_id = i}

\* ------------------------------------------------------------------ C1
\* C1: for every run, the seq_no values of its telemetry events, taken in
\* insertion order, are exactly 1, 2, ..., N: no gap and no duplicate, whatever
\* the interleaving of the worker's emit_event calls with those of judge
\* requests on the same run (two judge requests at once included).
C1_SeqNoContiguous ==
    \A r \in DOMAIN runs :
        LET e == Events(r) IN \A k \in DOMAIN e : e[k].seq_no = k

\* Two judge requests are awaiting generate on the same run, and the worker
\* has emitted an event of that run between their judge.started events.
C1_Witness ==
    \E r \in DOMAIN runs :
        /\ \A j \in JudgeSlots : judge[j].pc = "generating" /\ judge[j].run_id = r
        /\ LET e == Events(r) IN
             \E k \in DOMAIN e :
                /\ k + 2 = Len(e)
                /\ e[k].event_type = "judge.started"
                /\ e[k + 1].event_type = "run.completed"
                /\ e[k + 2].event_type = "judge.started"

\* ------------------------------------------------------------------ C2
EndedByHandler(r) ==
    \E k \in DOMAIN telemetry_events :
        /\ telemetry_events[k].run_id = r
        /\ telemetry_events[k].event_type = "run.completed"
        /\ telemetry_events[k].payload.error # ""

AllItemsFailed(r) ==
    /\ ItemsOfRun(r) # {}
    /\ \A i \in ItemsOfRun(r) : run_items[i].status = "FAILED"

\* C2 as stated: a terminal run is FAILED exactly when it has at least one
\* item and all its items are FAILED, else COMPLETED, whichever way it ended.
C2_Original ==
    \A r \in DOMAIN runs :
        runs[r].status \in RunTerminal =>
            (runs[r].status = "FAILED" <=> AllItemsFailed(r))

\* C2 (amended): a run that ended through the normal end of _execute_run is
\* FAILED exactly when it has at least one item and all its items are FAILED,
\* else COMPLETED; a run that ended through the worker's exception handler is
\* FAILED whatever the statuses of its items.
C2_FinalStatus ==
    \A r \in DOMAIN runs :
        runs[r].status \in RunTerminal =>
            IF EndedByHandler(r)
            THEN runs[r].status = "FAILED"
            ELSE (runs[r].status = "FAILED" <=> AllItemsFailed(r))

\* One run ended normally as FAILED with all its items FAILED, and another was
\* ended by the exception handler as FAILED with an item still PENDING.
C2_Witness ==
    \E a, b \in DOMAIN runs :
        /\ runs[a].status = "FAILED" /\ ~EndedByHandler(a) /\ AllItemsFailed(a)
        /\ runs[b].status = "FAILED" /\ EndedByHandler(b)
        /\ \E i \in ItemsOfRun(b) : run_items[i].status = "PENDING"

\* ------------------------------------------------------------------ C3
\* C3: every FAILED run item has exactly one Metric row and that row has
\* error_flag = true.
C3_FailedHasErrorMetric ==
    \A i \in DOMAIN run_items :
        run_items[i].status = "FAILED" =>
            /\ Cardinality(RowsOf(metrics, i)) = 1
            /\ \A k \in RowsOf(metrics, i) : metrics[k].error_flag

\* ------------------------------------------------------------------ C4
\* C4: every run item that is COMPLETED or PARTIAL_TOOL_SUPPORT has exactly
\* one Output row and exactly one Metric row, and that Metric has
\* error_flag = false, also when earlier attempts of the item failed.
C4_SuccessHasOutputAndMetric ==
    \A i \in DOMAIN run_items :
        run_items[i].status \in {"COMPLETED", "PARTIAL_TOOL_SUPPORT"} =>
            /\ Cardinality(RowsOf(outputs, i)) = 1
            /\ Cardinality(RowsOf(metrics, i)) = 1
            /\ \A k \in RowsOf(metrics, i) : ~metrics[k].error_flag

\* An item that had been set FAILED (its Metric written with error_flag =
\* true) is executed again and ends PARTIAL_TOOL_SUPPORT in its second attempt.
C4_Witness ==
    \E i \in DOMAIN run_items :
        /\ run_items[i].status = "PARTIAL_TOOL_SUPPORT"
        /\ run_items[i].attempt_count = 2
        /\ \E k \in ItemEvents(i) :
              /\ telemetry_events[k].event_type = "item.completed"
              /\ telemetry_events[k].payload.status = "FAILED"

\* ------------------------------------------------------------------ C5
\* C5: when _execute_item has finished an item (success or FAILED), the item's
\* attempt_count is the index of the last attempt that was started, also when
\* an attempt raised before the provider call.
C5_AttemptCountIsLastStarted ==
    w.fin.item # NULL => run_items[w.fin.item].attempt_count = w.fin.started

\* ------------------------------------------------------------------ C6
\* Attempts started so far for run item i, over all its executions: the failed
\* ones (item.error with an attempt number), the successful ones
\* (item.metrics) and the one in progress.
AttemptsStarted(i) ==
    Cardinality({k \in ItemEvents(i) :
                    \/ telemetry_events[k].event_type = "item.error"
                       /\ telemetry_events[k].payload.attempt >= 1
                    \/ telemetry_events[k].event_type = "item.metrics"})
    + (IF w.item = i /\ w.pc = "generating" THEN 1 ELSE 0)

FailedAttempts(i) ==
    Cardinality({k \in ItemEvents(i) :
                    /\ telemetry_events[k].event_type = "item.error"
                    /\ telemetry_events[k].payload.attempt >= 1})

C7_RunStatusTransitions ==
    [][\A r \in DOMAIN runs' :
          IF r \in DOMAIN runs
          THEN runs'[r].status # runs[r].status =>
                 <<runs[r].status, runs'[r].status>> \in
                    {<<"QUEUED", "RUNNING">>, <<"RUNNING", "COMPLETED">>,
                     <<"RUNNING", "FAILED">>}
          ELSE runs'[r].status = "QUEUED"]_vars

\* One run has gone through to FAILED, one to COMPLETED.
C7_Witness ==
    \E a, b \in DOMAIN runs :
        /\ runs[a].status = "FAILED" /\ HasEvent(a, "run.started")
        /\ runs[b].status = "COMPLETED" /\ HasEvent(b, "run.started")

\* ------------------------------------------------------------------ C8
\* C8: a run item is created PENDING and its status only ever changes from
\* PENDING to RUNNING and from RUNNING to COMPLETED, PARTIAL_TOOL_SUPPORT or
\* FAILED, also when car_ids names a car more than once.
C8_ItemStatusTransitions ==
    [][\A i \in DOMAIN run_items' :
          IF i \in DOMAIN run_items
          THEN run_items'[i].status # run_items[i].status =>
                 \/ run_items[i].status = "PENDING" /\ run_items'[i].status = "RUNNING"
                 \/ run_items[i].status = "RUNNING" /\ run_items'[i].status \in ItemTerminal
          ELSE run_items'[i].status = "PENDING"]_vars

\* ------------------------------------------------------------------ C9
\* C9: the worker executes runs one at a time in the order they were
\* enqueued: a run enqueued after another is not set RUNNING and emits no
\* run.started before the earlier one is terminal and has emitted
\* run.completed.
C9_RunsInEnqueueOrder ==
    /\ Cardinality({r \in DOMAIN runs : runs[r].status = "RUNNING"}) <= 1
    /\ \A a, b \in DOMAIN runs :
          (a < b /\ (runs[b].status # "QUEUED" \/ HasEvent(b, "run.started"))) =>
             /\ runs[a].status \in RunTerminal
             /\ HasEvent(a, "run.completed")

\* The first run is over and the worker is executing the second.
C9_Witness ==
    /\ Len(runs) = 2
    /\ runs[1].status \in RunTerminal /\ runs[2].status = "RUNNING"
    /\ w.run_id = 2 /\ w.pc = "generating"

\* ----------------------------------------------------------------- C10
\* C10 (second part): a run all of whose generate calls succeeded, none with
\* a tool call, and during which no row was deleted, ends COMPLETED with every
\* one of its items COMPLETED.
C10_AllSucceedAllCompleted ==
    \A r \in DOMAIN runs :
        (/\ runs[r].status \in RunTerminal
         /\ served.deletes = 0
         /\ ~HasEvent(r, "item.error")) =>
            /\ runs[r].status = "COMPLETED"
            /\ \A i \in ItemsOfRun(r) : run_items[i].status = "COMPLETED"

\* ----------------------------------------------------------------- C11
Consecutive(d) == \A k \in 1..(Len(d) - 1) : d[k + 1] = d[k] + 1

\* C11: a stream opened with cursor c delivers only events with seq_no > c,
\* in strictly increasing seq_no order, skipping none between two delivered
\* events; and a client that reconnects with Last-Event-ID = the last id it
\* received sees, over both connections together, every event once, no gap.
C11_ResumableStream ==
    /\ \A s \in SubIds :
          /\ \A k \in DOMAIN subs[s].delivered : subs[s].delivered[k] > subs[s].start
          /\ Consecutive(subs[s].delivered)
    /\ subs[2].pc # "none" => Consecutive(subs[1].delivered \o subs[2].delivered)

\* ----------------------------------------------------------------- C12
\* C12: the starting cursor of a connection is the maximum of after_seq, the
\* integer-parsed Last-Event-ID and 0, for every combination of the two.
C12_CursorIsMax ==
    \A s \in SubIds :
        subs[s].pc # "none" =>
            subs[s].start =
                Max({0} \cup {p.val : p \in {q \in {subs[s].after_seq, subs[s].last_event_id} :
                                               q.kind = "int"}})

\* ----------------------------------------------------------------- C13
\* C13: a pass of the subscriber loop ends the stream exactly when the run
\* status it read is COMPLETED or FAILED and the poll returned no event: never
\* while the run is QUEUED or RUNNING, never in a poll that returned events;
\* and once the run is terminal (its log then stops growing) the stream
\* eventually ends.
C13_StreamEndsWhenDrained ==
    /\ [][\A s \in SubIds :
            (subs[s].pc = "polling" /\ subs'[s] # subs[s] /\ subs'[s].pc # "dropped") =>
               (subs'[s].pc = "ended" <=>
                   /\ runs[subs[s].run_id].status \in RunTerminal
                   /\ subs'[s].delivered = subs[s].delivered)]_vars
    /\ \A s \in SubIds :
          (subs[s].pc = "polling" /\ runs[subs[s].run_id].status \in RunTerminal)
             ~> (subs[s].pc # "polling")

\* A stream opened from the start of the log has ended after delivering every
\* event of its run, the last of them run.completed.
C13_Witness ==
    \E s \in SubIds :
        /\ subs[s].pc = "ended" /\ subs[s].start = 0
        /\ Len(subs[s].delivered) = Len(Events(subs[s].run_id))
        /\ HasEvent(subs[s].run_id, "run.completed")

\* C14: for every connection, hence for every provider type, the generate
\* calls in flight, those of the executor and those of judge_run together, are
\* never more than the provider's max_in_flight (at least 1).
InFlight(conn) ==
    Cardinality({j \in JudgeSlots : judge[j].pc = "generating"
                                    /\ connection_id(judge[j].car) = conn})
    + (IF w.pc = "generating" /\ connection_id(run_items[w.item].car_id) = conn THEN 1 ELSE 0)

C14_InFlightBounded == \A conn \in CarIds : InFlight(conn) <= SemaphoreSize(max_in_flight)

\* ------------------------------------------------------------------ C15
\* The events of the item's last attempt: those after its last item.error.
LastAttemptEvents(i, type) ==
    LET errors == {k \in ItemEvents(i) : telemetry_events[k].event_type = "item.error"}
    IN {k \in ItemEvents(i) : /\ telemetry_events[k].event_type = type
                              /\ \A e \in errors : e < k}

Succeeded(i) == run_items[i].status \in {"COMPLETED", "PARTIAL_TOOL_SUPPORT"}

\* C15: the attempt that made an item COMPLETED or PARTIAL_TOOL_SUPPORT issued
\* between 1 and tool_loop_limit generate calls (one request.sent each); the
\* item is PARTIAL_TOOL_SUPPORT exactly when the pass of loop index
\* tool_loop_limit - 1 of that attempt executed tool calls, COMPLETED
\* otherwise; and the item has one tool.loop.exhausted event when it is
\* PARTIAL_TOOL_SUPPORT and none otherwise.
C15_ToolLoopOutcome ==
    \A i \in DOMAIN run_items : Succeeded(i) =>
        /\ Cardinality(LastAttemptEvents(i, "request.sent")) \in 1..tool_loop_limit
        /\ run_items[i].status = "PARTIAL_TOOL_SUPPORT" <=>
              \E k \in LastAttemptEvents(i, "tool.loop.continue") :
                  telemetry_events[k].payload.loop = tool_loop_limit - 1
        /\ Cardinality({k \in ItemEvents(i) :
                           telemetry_events[k].event_type = "tool.loop.exhausted"})
              = IF run_items[i].status = "PARTIAL_TOOL_SUPPORT" THEN 1 ELSE 0

\* An item is PARTIAL_TOOL_SUPPORT after tool_loop_limit generate calls in its
\* second attempt, and its first attempt had executed a tool call too.
C15_Witness ==
    \E i \in DOMAIN run_items :
        /\ run_items[i].status = "PARTIAL_TOOL_SUPPORT"
        /\ run_items[i].attempt_count = 2
        /\ Cardinality(LastAttemptEvents(i, "request.sent")) = tool_loop_limit
        /\ \E k \in ItemEvents(i) : telemetry_events[k].event_type = "request.sent"
                                    /\ k \notin LastAttemptEvents(i, "request.sent")
                                    /\ k - 1 \in ItemEvents(i)
                                    /\ telemetry_events[k - 1].event_type = "tool.loop.continue"

\* ------------------------------------------------------------------ C16
CountEvents(ev, type) ==
    Cardinality({k \in DOMAIN ev : ev[k].event_type = type})

\* C16: a tool call on which execute_tool raises ToolExecutionError (unknown
\* tool, unsupported or failing calculator expression) has a ToolCall row of
\* status "error" whose result is {error: msg}; and the step that records such
\* a row does not fail the attempt: no item.error, one tool.call.executed and
\* one tool message per row recorded, tool.loop.continue, and then either the
\* next pass of the loop (request.sent) or, after the last pass, the item
\* PARTIAL_TOOL_SUPPORT.
C16_ToolFailureRecorded ==
    /\ [](\A k \in DOMAIN tool_calls :
            execute_tool(tool_calls[k].tool_name, tool_calls[k].args).exc = "ToolExecutionError"
               => tool_calls[k].status = "error" /\ tool_calls[k].result = "error")
    /\ [][(\E k \in (Len(tool_calls) + 1)..Len(tool_calls') : tool_calls'[k].status = "error") =>
            LET added == Len(tool_calls') - Len(tool_calls)
            IN /\ w'.pc \notin {"sleep", "item_fail"}
               /\ CountEvents(telemetry_events', "item.error")
                     = CountEvents(telemetry_events, "item.error")
               /\ CountEvents(telemetry_events', "tool.call.executed")
                     = CountEvents(telemetry_events, "tool.call.executed") + added
               /\ CountEvents(telemetry_events', "tool.loop.continue")
                     = CountEvents(telemetry_events, "tool.loop.continue") + 1
               /\ w'.tool_messages = w.tool_messages + added
               /\ \/ /\ w'.pc = "generating" /\ w'.item = w.item
                        /\ w'.loop_idx = w.loop_idx + 1
                        /\ telemetry_events'[Len(telemetry_events')].event_type = "request.sent"
                  \/ /\ w.loop_idx = tool_loop_limit - 1
                     /\ run_items'[w.item].status = "PARTIAL_TOOL_SUPPORT"]_vars

\* The attempt is in its second pass after a response whose two tool calls
\* both failed: an unknown tool and a division by zero, both recorded as errors.
C16_Witness ==
    /\ w.pc = "generating" /\ w.loop_idx = 1 /\ w.tool_messages = 2
    /\ \E k \in DOMAIN tool_calls :
          /\ k + 1 \in DOMAIN tool_calls
          /\ tool_calls[k].run_item_id = w.item /\ tool_calls[k + 1].run_item_id = w.item
          /\ tool_calls[k].tool_name = "nope" /\ tool_calls[k].status = "error"
          /\ tool_calls[k + 1].tool_name = "calculator" /\ tool_calls[k + 1].args = "1/0"
          /\ tool_calls[k + 1].status = "error" /\ tool_calls[k + 1].result = "error"

\* ------------------------------------------------------------------ C17
\* The tokens of the token.delta events of item i, in seq_no order.
RECURSIVE TokenDeltas(_, _)
TokenDeltas(ev, i) ==
    IF ev = << >> THEN << >>
    ELSE LET rest == TokenDeltas(SubSeq(ev, 1, Len(ev) - 1), i)
             last == ev[Len(ev)]
         IN IF last.run_item_id = i /\ last.event_type = "token.delta"
            THEN Append(rest, last.payload.token) ELSE rest

\* C17: the streamed_text of an item's Output is the concatenation, in seq_no
\* order, of the tokens of all the item's token.delta events, also when the
\* item succeeded in a retry after an attempt that had streamed tokens.
C17_StreamedTextIsTokenDeltas ==
    \A k \in DOMAIN outputs :
        outputs[k].streamed_text = TokenDeltas(telemetry_events, outputs[k].run_item_id)

\* ------------------------------------------------------------------ C18
JudgeRows(r) == {k \in DOMAIN judge_results : judge_results[k].run_id = r}

\* Every judge request on run r began after the run had ended and has
\* returned its response: as many judge.completed as judge.started, none in
\* progress.
JudgedAtRest(r) ==
    /\ \A j \in JudgeSlots : judge[j].run_id # r
    /\ HasEvent(r, "judge.started")
    /\ CountEvents(Events(r), "judge.started") = CountEvents(Events(r), "judge.completed")
    /\ \A k \in DOMAIN telemetry_events :
          (telemetry_events[k].run_id = r /\ telemetry_events[k].event_type = "judge.started")
             => \E e \in 1..(k - 1) : /\ telemetry_events[e].run_id = r
                                      /\ telemetry_events[e].event_type
                                            \in {"run.completed", "run.failed"}

\* C18: when the judge requests on a run have all returned, the run's
\* JudgeResult rows are those of one invocation: one per-item row for each
\* item that has an Output and a Test and none for another item, one per-car
\* aggregate for each car of these items, counting each of the car's items
\* once, and one run aggregate counting each item once.
C18_RowsOfOneInvocation ==
    \A r \in DOMAIN runs : JudgedAtRest(r) =>
        LET items == Range(Judged(r, 1))
            rows == JudgeRows(r)
            of_item(i) == {k \in rows : judge_results[k].run_item_id = i}
            of_car(c) == {k \in rows : /\ judge_results[k].run_item_id = NULL
                                       /\ judge_results[k].car_id = c}
        IN /\ \A i \in items : Cardinality(of_item(i)) = 1
           /\ \A k \in rows : judge_results[k].run_item_id \in items \cup {NULL}
           /\ \A c \in CarIds :
                 LET n == Cardinality({i \in items : run_items[i].car_id = c})
                 IN IF n = 0 THEN of_car(c) = {}
                    ELSE /\ Cardinality(of_car(c)) = 1
                         /\ \A k \in of_car(c) : judge_results[k].count = n
           /\ IF items = {} THEN of_car(NULL) = {}
              ELSE /\ Cardinality(of_car(NULL)) = 1
                   /\ \A k \in of_car(NULL) : judge_results[k].count = Cardinality(items)

\* ------------------------------------------------------------------ C19
\* C19: a failure while judging an item, the failure of the provider call
\* included, costs a zero-score row and nothing else, so that judge.started is
\* always followed by judge.completed: on a run with no judge request in
\* progress there are as many judge.completed events as judge.started events.
C19_JudgeFailureIsZeroRow ==
    \A r \in DOMAIN runs :
        (\A j \in JudgeSlots : judge[j].run_id # r) =>
            CountEvents(Events(r), "judge.started") = CountEvents(Events(r), "judge.completed")

\* ------------------------------------------------------------------ C20
\* C20: a step of a judge request changes no Run, RunItem, Output, Metric or
\* ToolCall row; it only appends telemetry events, all of them judge events
\* of one run, and changes JudgeResult rows of that run only.
C20_JudgeTouchesOnlyJudgeResults ==
    [][(judge' # judge \/ served'.judges # served.judges) =>
          /\ UNCHANGED <<runs, run_items, outputs, metrics, tool_calls>>
          /\ Len(telemetry_events') >= Len(telemetry_events)
          /\ SubSeq(telemetry_events', 1, Len(telemetry_events)) = telemetry_events
          /\ \E r \in DOMAIN runs :
                /\ \A k \in (Len(telemetry_events) + 1)..Len(telemetry_events') :
                      /\ telemetry_events'[k].run_id = r
                      /\ telemetry_events'[k].event_type \in {"judge.started", "judge.completed"}
                /\ DeleteJudgeResults(judge_results', r) = DeleteJudgeResults(judge_results, r)
      ]_vars

\* A judge request on a COMPLETED run has returned after another one failed:
\* the run has JudgeResult rows and more judge.started than judge.completed.
C20_Witness ==
    \E r \in DOMAIN runs :
        /\ runs[r].status = "COMPLETED"
        /\ \A j \in JudgeSlots : judge[j].pc = "idle"
        /\ JudgeRows(r) # {}
        /\ HasEvent(r, "judge.completed")
        /\ CountEvents(Events(r), "judge.started") > CountEvents(Events(r), "judge.completed")
        /\ \E i \in ItemsOfRun(r) : run_items[i].status = "COMPLETED" /\ HasRow(outputs, i)

\* ----------------------------------------------------------------- C21
\* C21: provider_mode is "ollama" for OLLAMA, "anthropic" for ANTHROPIC and
\* "openai_compat" for every other type, so that generate on an ANTHROPIC
\* connection runs the Anthropic adapter.
C21_ProviderModeMapping ==
    call.fn = "generate" =>
        /\ call.mode = CASE call.connection.type = "OLLAMA" -> "ollama"
                         [] call.connection.type = "ANTHROPIC" -> "anthropic"
                         [] OTHER -> "openai_compat"
        /\ call.connection.type = "ANTHROPIC" => call.adapter = "_generate_anthropic"

\* ----------------------------------------------------------------- C22
\* C22: the key of every provider call, those of the executor included, is
\* the decrypted api_key_encrypted of the Connection when it is set and
\* decrypts, else the non-empty value of the variable api_key_env_var names,
\* else none.
C22_KeyResolutionOrder ==
    call.fn = "generate" =>
        call.api_key =
            IF Truthy(decrypt_secret(call.connection.api_key_encrypted))
            THEN decrypt_secret(call.connection.api_key_encrypted)
            ELSE IF Truthy(call.connection.api_key_env_var)
                    /\ Truthy(getenv(call.connection.api_key_env_var))
                 THEN getenv(call.connection.api_key_env_var)
                 ELSE None

\* ----------------------------------------------------------------- C23
\* C23: an accepted start_run leaves a Run with exactly one RunItem for each
\* pair of a test of the suite and a car of car_ids, and its id once in the
\* queue: while the run is QUEUED its items are all PENDING with
\* attempt_count 0, and at any time their number is the number of tests times
\* the number of distinct selected cars.
C23_OneItemPerPair ==
    \A r \in DOMAIN runs :
        /\ \A t \in Range(tests), c \in Range(runs[r].selected_car_ids) :
              Cardinality({i \in ItemsOfRun(r) : run_items[i].test_id = t
                                                 /\ run_items[i].car_id = c}) = 1
        /\ Cardinality(ItemsOfRun(r))
              = Len(tests) * Cardinality(Range(runs[r].selected_car_ids))
        /\ runs[r].status = "QUEUED" =>
              /\ Cardinality({k \in DOMAIN queue : queue[k] = r}) = 1
              /\ \A i \in ItemsOfRun(r) : /\ run_items[i].status = "PENDING"
                                          /\ run_items[i].attempt_count = 0

\* ----------------------------------------------------------------- C24
RunIds == 1..MaxFailRuns

ParseableChunks(raw_constraints) ==
    LET parts == re_split(raw_constraints, << >>)
    IN {k \in DOMAIN parts : strip(parts[k]) # << >> /\ ":" \in Range(parts[k])}

Supported == {<<"contains">>, <<"icontains">>, <<"not_contains">>, <<"regex">>, <<"max_words">>}

\* C25: for every constraint text and output text the evaluator returns a
\* summary: total is the number of parseable chunks, passed is between 0 and
\* total and is the number of result rows that passed, and a chunk whose
\* check name is not supported is a failed row.
C25_ConstraintSummary ==
    call.fn = "evaluate_expected_constraints" =>
        /\ call.result.exc = "none"
        /\ call.result.total = Cardinality(ParseableChunks(call.raw_constraints))
        /\ call.result.passed \in 0..call.result.total
        /\ call.result.passed
              = Cardinality({k \in DOMAIN call.result.results : call.result.results[k].passed})
        /\ Len(call.result.results) = call.result.total
        /\ \A k \in DOMAIN call.result.results :
              call.result.results[k].type \notin Supported => ~call.result.results[k].passed

\* ----------------------------------------------------------------- C26
\* C26 as stated: total_latency_ms = max(0, finished_ms - started_ms);
\* generation_ms = total_latency_ms - ttft_ms whenever ttft_ms is given, also
\* when ttft_ms is total_latency_ms or more; generation_ms and tokens_per_sec
\* are null exactly when ttft_ms is absent.
C26_Original ==
    call.fn = "compute_metrics" =>
        /\ call.result.total_latency_ms = Max({0, call.finished_ms - call.started_ms})
        /\ call.ttft_ms # Absent =>
              call.result.generation_ms = IntVal(call.result.total_latency_ms - call.ttft_ms.val)
        /\ call.result.generation_ms = Absent <=> call.ttft_ms = Absent
        /\ call.result.tokens_per_sec = Absent <=> call.ttft_ms = Absent

\* C26: total_latency_ms = max(0, finished_ms - started_ms); whenever ttft_ms
\* is given, generation_ms = max(1, total_latency_ms - ttft_ms), which is
\* total_latency_ms - ttft_ms when ttft_ms is below total_latency_ms and 1
\* otherwise; generation_ms and tokens_per_sec are null exactly when ttft_ms
\* is absent.
C26_GenerationMsFloorOne ==
    call.fn = "compute_metrics" =>
        /\ call.result.total_latency_ms = Max({0, call.finished_ms - call.started_ms})
        /\ call.ttft_ms # Absent =>
              call.result.generation_ms
                 = IF call.ttft_ms.val < call.result.total_latency_ms
                   THEN IntVal(call.result.total_latency_ms - call.ttft_ms.val)
                   ELSE IntVal(1)
        /\ call.result.generation_ms = Absent <=> call.ttft_ms = Absent
        /\ call.result.tokens_per_sec = Absent <=> call.ttft_ms = Absent

\* compute_metrics was given a ttft_ms above the total latency.
C26_Witness ==
    /\ call.fn = "compute_metrics"
    /\ call.ttft_ms # Absent
    /\ call.ttft_ms.val > call.result.total_latency_ms
    /\ call.result.total_latency_ms > 0

\* ----------------------------------------------------------------- C27
DeltaNames == {"latency", "tps", "error", "assertion", "judge"}
LowerIsBetter == {"latency", "error"}

\* The deltas that count +1 and those that count -1, as the claim lists them.
Gains(d) == {n \in DeltaNames : d[n] # Absent /\
                IF n \in LowerIsBetter THEN d[n].val <= -Threshold[n] ELSE d[n].val >= Threshold[n]}
Losses(d) == {n \in DeltaNames : d[n] # Absent /\
                IF n \in LowerIsBetter THEN d[n].val >= Threshold[n] ELSE d[n].val <= -Threshold[n]}

\* C27: the classification is "improved" iff gains minus losses is 2 or more,
\* "regressed" iff it is -2 or less, "mixed" otherwise, absent deltas counting
\* for nothing; and the classification of the negated deltas swaps improved
\* and regressed and keeps mixed.
C27_ClassifierByScore ==
    call.fn = "_classify_delta" =>
        LET score == Cardinality(Gains(call.deltas)) - Cardinality(Losses(call.deltas))
        IN /\ call.result = "improved" <=> score >= 2
           /\ call.result = "regressed" <=> score <= -2
           /\ call.result = "mixed" <=> (score > -2 /\ score < 2)
           /\ call.negated = CASE call.result = "improved" -> "regressed"
                               [] call.result = "regressed" -> "improved"
                               [] OTHER -> "mixed"

\* Two deltas exactly at their thresholds, one absent, none against:
\* a score of exactly 2.
C27_Witness ==
    /\ call.fn = "_classify_delta"
    /\ call.result = "improved"
    /\ call.deltas.latency = IntVal(-Threshold.latency)
    /\ call.deltas.judge = IntVal(Threshold.judge)
    /\ call.deltas.tps = Absent
    /\ Cardinality(Gains(call.deltas)) = 2 /\ Losses(call.deltas) = {}

\* ----------------------------------------------------------------- C28
InRange(score) == score.num >= 0 /\ score.num <= 10 * score.den

\* The per-item rows an aggregate row covers: those of its run, and of its
\* car when it is a per-car aggregate.
Covered(k) ==
    {x \in JudgeRows(judge_results[k].run_id) :
        /\ judge_results[x].run_item_id # NULL
        /\ judge_results[k].car_id # NULL => judge_results[x].car_id = judge_results[k].car_id}

RECURSIVE SumOver(_, _)
SumOver(S, field) ==
    IF S = {} THEN 0
    ELSE LET x == CHOOSE y \in S : TRUE
         IN judge_results[x][field].num + SumOver(S \ {x}, field)

\* C28: every JudgeResult row has its scores within [0, 10]; a per-item row
\* holds the judge model's scores or the zero scores; and, when no judge
\* request is in progress on the run, each field of an aggregate row is the
\* arithmetic mean of that field over the per-item rows the aggregate covers.
C28_ScoresAndMeans ==
    \A k \in DOMAIN judge_results :
        /\ InRange(judge_results[k].writing_score) /\ InRange(judge_results[k].overall)
        /\ judge_results[k].rationale = "Judge JSON parse failed" =>
              judge_results[k].writing_score.num = 0 /\ judge_results[k].overall.num = 0
        /\ (judge_results[k].run_item_id = NULL
            /\ \A j \in JudgeSlots : judge[j].run_id # judge_results[k].run_id) =>
              \A field \in {"writing_score", "overall"} :
                 judge_results[k][field].num * Cardinality(Covered(k))
                    = SumOver(Covered(k), field) * judge_results[k][field].den

\* ----------------------------------------------------------------- C29
\* The item.started events of run r: their places in the log.
StartedAt(r) ==
    {k \in DOMAIN telemetry_events :
        telemetry_events[k].run_id = r /\ telemetry_events[k].event_type = "item.started"}

\* Position of x in the sequence s (0 when it is not in it).
IndexIn(s, x) == IF x \in Range(s) THEN Min({k \in DOMAIN s : s[k] = x}) ELSE 0

\* Item a comes before item b of run r, or is of the same (test, car): tests
\* by order_index first (as _execute_run read them), then cars by their place
\* in selected_car_ids.
InLoopOrder(r, a, b) ==
    LET ta == IndexIn(w.tests, run_items[a].test_id)
        tb == IndexIn(w.tests, run_items[b].test_id)
        ca == IndexIn(runs[r].selected_car_ids, run_items[a].car_id)
        cb == IndexIn(runs[r].selected_car_ids, run_items[b].car_id)
    IN ta < tb \/ (ta = tb /\ ca <= cb)

\* C29: within the run the worker executes, the items start in the order
\* tests (by the order_index the run read) outer, cars (selected_car_ids)
\* inner; an item.started event is appended only when
\* every item of the run started before is in a terminal status; and at most
\* one RunItem of a run is RUNNING at any time.
C29_ItemsStartSerially ==
    /\ [](\A r \in DOMAIN runs :
            /\ \A k, l \in StartedAt(r) :
                  (k < l /\ w.run_id = r /\ w.pc \notin {"idle", "run_load"})
                     => InLoopOrder(r, telemetry_events[k].run_item_id,
                                    telemetry_events[l].run_item_id)
            /\ Cardinality({i \in ItemsOfRun(r) : run_items[i].status = "RUNNING"}) <= 1)
    /\ [][\A l \in (Len(telemetry_events) + 1)..Len(telemetry_events') :
            telemetry_events'[l].event_type = "item.started" =>
               \A k \in StartedAt(telemetry_events'[l].run_id) :
                  run_items[telemetry_events[k].run_item_id].status \in ItemTerminal]_vars

\* A run of two tests on cars <<2, 1>>, the test of the larger id first: its
\* four items have started, one after the other.
C29_Witness ==
    \E r \in DOMAIN runs :
        /\ tests = <<3, 2>> /\ runs[r].selected_car_ids = <<2, 1>>
        /\ Cardinality({telemetry_events[k].run_item_id : k \in StartedAt(r)}) = 4

\* ----------------------------------------------------------------- C30
\* The places in the log where an attempt of item i begins: its request.sent
\* events of loop index 0.
AttemptStarts(i) ==
    {k \in ItemEvents(i) : /\ telemetry_events[k].event_type = "request.sent"
                           /\ telemetry_events[k].payload.loop = 0}

\* The events of the given type of the attempt of item i that begins at s.
AttemptEvents(i, s, type) ==
    {k \in ItemEvents(i) : /\ k >= s
                           /\ telemetry_events[k].event_type = type
                           /\ \A s2 \in AttemptStarts(i) : ~(s < s2 /\ s2 <= k)}

\* C30: in every attempt of a run item the token.delta events carry, by
\* ascending seq_no, the tokens in the order the provider delivered them (the
\* attempt's streamed_parts, while the attempt is streaming); an attempt that
\* streamed a token has exactly one ttft.recorded event, whose seq_no is below
\* that of every token.delta of the attempt and above that of the attempt's
\* first request.sent; an attempt that streamed none has no ttft.recorded.
C30_TokensInOrderOneTtft ==
    \A i \in DOMAIN run_items : \A s \in AttemptStarts(i) :
        LET T == AttemptEvents(i, s, "token.delta")
            F == AttemptEvents(i, s, "ttft.recorded")
        IN /\ T = {} => F = {}
           /\ T # {} =>
                /\ Cardinality(F) = 1
                /\ \A f \in F :
                     /\ \A t \in T : telemetry_events[f].seq_no < telemetry_events[t].seq_no
                     /\ telemetry_events[f].seq_no > telemetry_events[s].seq_no
           /\ (w.pc = "generating" /\ w.item = i /\ s = Max(AttemptStarts(i))) =>
                /\ Cardinality(T) = Len(w.streamed_parts)
                /\ \A t \in T :
                     telemetry_events[t].payload.token =
                        w.streamed_parts[Cardinality({u \in T : telemetry_events[u].seq_no
                                                                  <= telemetry_events[t].seq_no})]

\* The second attempt of an item is streaming and has delivered "b" then "a",
\* after a first attempt that streamed a token and failed.
C30_Witness ==
    /\ w.pc = "generating"
    /\ w.streamed_parts = <<"b", "a">>
    /\ Cardinality(AttemptStarts(w.item)) = 2
    /\ \E k \in ItemEvents(w.item) :
          /\ k < Max(AttemptStarts(w.item))
          /\ telemetry_events[k].event_type = "token.delta"

\* ----------------------------------------------------------------- C31
\* The ToolCall rows of item i, by their place in the table.
ToolRows(i) == {k \in DOMAIN tool_calls : tool_calls[k].run_item_id = i}

\* The tool.call.executed events of item i that follow a request.sent of loop
\* index l of the item with no other request.sent of the item in between: the
\* tool calls received at loop l, in any attempt.
ExecutedAtLoop(i, l) ==
    {k \in ItemEvents(i) :
        /\ telemetry_events[k].event_type = "tool.call.executed"
        /\ \E s \in ItemEvents(i) :
              /\ s < k
              /\ telemetry_events[s].event_type = "request.sent"
              /\ telemetry_events[s].payload.loop = l
              /\ \A s2 \in ItemEvents(i) :
                    (s < s2 /\ s2 < k) => telemetry_events[s2].event_type # "request.sent"}

\* C31: no step deletes or changes a ToolCall row (the table only grows at its
\* end); for a terminal item the rows of each loop index are as many as the
\* tool calls executed at that loop index in all its attempts; a row of loop
\* index l exists only if some attempt received tool calls at loop l.
C31_ToolCallsAppendOnly ==
    /\ [](\A i \in DOMAIN run_items : \A l \in 0..(tool_loop_limit - 1) :
            /\ (\E k \in ToolRows(i) : tool_calls[k].loop_index = l) => ExecutedAtLoop(i, l) # {}
            /\ run_items[i].status \in ItemTerminal =>
                  Cardinality({k \in ToolRows(i) : tool_calls[k].loop_index = l})
                     = Cardinality(ExecutedAtLoop(i, l)))
    /\ [][/\ Len(tool_calls') >= Len(tool_calls)
          /\ SubSeq(tool_calls', 1, Len(tool_calls)) = tool_calls]_vars

\* An item is terminal after two attempts, each of which executed a tool call
\* at loop index 0.
C31_Witness ==
    \E i \in DOMAIN run_items :
        /\ run_items[i].status \in ItemTerminal
        /\ run_items[i].attempt_count = 2
        /\ Cardinality({k \in ToolRows(i) : tool_calls[k].loop_index = 0}) >= 2
        /\ \E k \in ToolRows(i), e \in ItemEvents(i) :
              /\ telemetry_events[e].event_type = "item.error"
              /\ \E x \in ExecutedAtLoop(i, 0) : x < e
              /\ \E x \in ExecutedAtLoop(i, 0) : x > e

\* ----------------------------------------------------------------- C32
\* C32: the semaphore of a provider type is made by the step that begins the
\* first attempt using the type, with max(1, max_in_flight) permits for the
\* max_in_flight of that moment; once made, no step (an update of
\* max_in_flight, stop(), start(), a later attempt) changes its size or
\* removes it.
C32_SemaphoreSizeIsFixed ==
    [][\A key \in ProviderTypes :
         /\ semaphores[key] # NoSemaphore => semaphores'[key].size = semaphores[key].size
         /\ (semaphores[key] = NoSemaphore /\ semaphores'[key] # NoSemaphore) =>
               /\ w.pc = "attempt" /\ w'.pc = "generating"
               /\ semaphores'[key].size = Max({1, settings_max_in_flight})]_vars

\* After stop() and start() an attempt runs under a semaphore whose size is
\* not what the present max_in_flight would give.
C32_Witness ==
    /\ served.stops = 1
    /\ w.pc = "generating"
    /\ semaphores[semaphore_key].size # Max({1, settings_max_in_flight})

\* ----------------------------------------------------------------- C33
\* A run that is RUNNING and that the worker task is not executing: a run
\* whose execution stop() cancelled.
Abandoned(r) == runs[r].status = "RUNNING" /\ w.run_id # r

\* C33: the step of stop() that cancels the worker inside a run leaves the run
\* RUNNING and its rows and events as they are; from then on, through start()
\* and the execution of later runs, the run stays RUNNING with no
\* run.completed event, and the item that was in progress stays RUNNING.
C33_CancelledRunIsNotReaped ==
    /\ [](\A r \in DOMAIN runs : Abandoned(r) =>
            /\ ~HasEvent(r, "run.completed")
            /\ \E i \in ItemsOfRun(r) : run_items[i].status = "RUNNING")
    /\ [][\A r \in DOMAIN runs :
            /\ (w.run_id = r /\ w'.pc = "stopped") =>
                  /\ runs'[r].status = "RUNNING"
                  /\ w.item # NULL /\ run_items'[w.item].status = "RUNNING"
                  /\ telemetry_events' = telemetry_events
            /\ Abandoned(r) =>
                  /\ runs'[r] = runs[r] /\ w'.run_id # r
                  /\ \A i \in ItemsOfRun(r) : run_items'[i] = run_items[i]]_vars

\* A run cancelled by stop() is still RUNNING, with its item RUNNING, after
\* start() and the completion of a later run.
C33_Witness ==
    \E r, r2 \in DOMAIN runs :
        /\ Abandoned(r)
        /\ r2 > r /\ runs[r2].status = "COMPLETED" /\ HasEvent(r2, "run.completed")
        /\ w.pc = "idle"

\* ----------------------------------------------------------------- C38
\* C38: the permit an attempt takes is given back on every way out of the
\* tool loop (its normal end, an exception of generate or of a tool, the
\* cancellation by stop()): while an attempt is inside the loop exactly its
\* permit is missing, otherwise every semaphore has all its permits; hence
\* the acquire of an attempt about to begin finds a permit.
C38_PermitsReturned ==
    \A key \in ProviderTypes :
        /\ (w.pc = "generating" /\ semaphores[key] # NoSemaphore) =>
              semaphores[key].value = semaphores[key].size - 1
        /\ w.pc # "generating" => semaphores[key].value = semaphores[key].size
        /\ w.pc = "attempt" =>
              get_semaphore(semaphores, key, settings_max_in_flight)[key].value >= 1

\* A new attempt is about to take a permit of a semaphore of size 1 after an
\* attempt was cancelled by stop() and another ended with an exception.
C38_Witness ==
    /\ w.pc = "attempt"
    /\ served.stops = 1
    /\ semaphores[semaphore_key] = Semaphore(1)
    /\ \E k \in DOMAIN telemetry_events : telemetry_events[k].event_type = "item.error"
    /\ \E r \in DOMAIN runs : Abandoned(r) /\ \E i \in ItemsOfRun(r) : run_items[i].attempt_count > 0

\* ----------------------------------------------------------------- C34
\* The fragments of index i among the lines read before "[DONE]".
OwnFragments(lines, i) == SelectSeq(UntilDone(lines), LAMBDA tc : IndexOf(tc) = i)

\* The tool calls of index i in a tool_calls list (none or one).
OfIndex(tool_calls_list, i) == SelectSeq(tool_calls_list, LAMBDA t : t.idx = i)

RECURSIVE Concat(_)
Concat(fs) == IF fs = << >> THEN << >> ELSE Head(fs).arguments \o Concat(Tail(fs))

\* The last non-empty value of the field among the fragments ("" when none).
LastNonEmpty(fs, field) ==
    LET S == {k \in DOMAIN fs : fs[k][field] # ""}
    IN IF S = {} THEN "" ELSE fs[Max(S)][field]

Called == call # NoCall /\ call.fn = "_generate_openai_compat"

\* C34 as stated: the tool call of index i is the one the fragments of index
\* i alone give, id included.
C34_Original ==
    Called => \A i \in {0, 1} :
        OfIndex(call.tool_calls, i)
           = OfIndex(openai_compat_tool_calls(OwnFragments(call.lines, i)), i)

\* C34: the tool call of index i has as name the last non-empty name among
\* the fragments of index i read before "[DONE]" (there is no tool call when
\* there is none), as arguments their arguments concatenated in arrival order
\* (parsed as JSON, or kept raw), and as id their last non-empty id; only when
\* they have no id is the id call_<n>, n being the place of the tool call in
\* the list, which counts the tool calls of the indexes that arrived first.
C34_AssembledFromOwnFragments ==
    Called => \A i \in {0, 1} :
        LET own == OwnFragments(call.lines, i)
            got == OfIndex(call.tool_calls, i)
        IN /\ Len(got) = (IF LastNonEmpty(own, "name") = "" THEN 0 ELSE 1)
           /\ \A k \in DOMAIN call.tool_calls : call.tool_calls[k].idx = i =>
                 /\ call.tool_calls[k].name = LastNonEmpty(own, "name")
                 /\ call.tool_calls[k].arguments = ParsedArgs(Concat(own))
                 /\ call.tool_calls[k].id =
                       Or(LastNonEmpty(own, "id"), CallId(k))

\* Fragments of index 1 and 0 interleaved (0 by default): the tool call of
\* index 0 has the arguments "a" then "b" and, having no id, is call_2.
C34_Witness ==
    /\ Called
    /\ Len(call.lines) = 3
    /\ IndexOf(call.lines[1]) = 1 /\ call.lines[2].index = NoIndex /\ call.lines[3].index = 0
    /\ \E k \in DOMAIN call.tool_calls :
          /\ call.tool_calls[k].idx = 0
          /\ call.tool_calls[k].arguments = [json |-> <<"a", "b">>]
          /\ call.tool_calls[k].id = "call_2"

\* ----------------------------------------------------------------- C35
\* C35: every RunItem of a run whose status is COMPLETED or FAILED is in a
\* terminal status (COMPLETED, PARTIAL_TOOL_SUPPORT or FAILED).
C35_FinishedRunHasTerminalItems ==
    \A r \in DOMAIN runs : runs[r].status \in RunTerminal =>
        \A i \in ItemsOfRun(r) : run_items[i].status \in ItemTerminal

\* ----------------------------------------------------------------- C36
\* The events of type `type` of run r: their places in the log.
RunEventsAt(r, type) ==
    {k \in DOMAIN telemetry_events :
        telemetry_events[k].run_id = r /\ telemetry_events[k].event_type = type}

JudgeEventTypes == {"judge.started", "judge.completed"}

\* One run.started and one run.completed, the item-level events between
\* them, the payload status the stored one.
OneStartOneEnd(r) ==
    /\ Cardinality(RunEventsAt(r, "run.started")) = 1
    /\ Cardinality(RunEventsAt(r, "run.completed")) = 1
    /\ \A s \in RunEventsAt(r, "run.started"), c \in RunEventsAt(r, "run.completed") :
          /\ telemetry_events[c].payload.status = runs[r].status
          /\ \A k \in DOMAIN telemetry_events :
                (telemetry_events[k].run_id = r /\ telemetry_events[k].run_item_id # NULL) =>
                   /\ telemetry_events[s].seq_no < telemetry_events[k].seq_no
                   /\ telemetry_events[k].seq_no < telemetry_events[c].seq_no

\* C36 as stated: a run that has ended has one run.started and one
\* run.completed event, run.started with the smallest seq_no of the run, the
\* item-level events between the two, the payload status the stored status.
C36_Original ==
    \A r \in DOMAIN runs : runs[r].status \in RunTerminal =>
        /\ OneStartOneEnd(r)
        /\ \A s \in RunEventsAt(r, "run.started"), k \in DOMAIN telemetry_events :
              telemetry_events[k].run_id = r =>
                 telemetry_events[s].seq_no <= telemetry_events[k].seq_no

\* C36: a run that has ended has one run.started and one run.completed
\* event, the item-level events between the two, the payload status the
\* stored status; run.started has the smallest seq_no among the events of the
\* run that are not judge.started or judge.completed (a judge request on a
\* run not yet started emits its events before run.started); a run that has
\* not ended has no run.completed and at most one run.started.
C36_RunEventsBracketItems ==
    \A r \in DOMAIN runs :
        /\ runs[r].status \in RunTerminal =>
              /\ OneStartOneEnd(r)
              /\ \A s \in RunEventsAt(r, "run.started"), k \in DOMAIN telemetry_events :
                    (/\ telemetry_events[k].run_id = r
                     /\ telemetry_events[k].event_type \notin JudgeEventTypes) =>
                       telemetry_events[s].seq_no <= telemetry_events[k].seq_no
        /\ runs[r].status \notin RunTerminal =>
              /\ RunEventsAt(r, "run.completed") = {}
              /\ Cardinality(RunEventsAt(r, "run.started"))
                    = (IF runs[r].status = "QUEUED" THEN 0 ELSE 1)

\* A run judged while it was queued has ended FAILED, after item-level events.
C36_Witness ==
    \E r \in DOMAIN runs :
        /\ runs[r].status = "FAILED"
        /\ \E j \in RunEventsAt(r, "judge.started"), s \in RunEventsAt(r, "run.started") : j < s
        /\ \E k \in DOMAIN telemetry_events :
              telemetry_events[k].run_id = r /\ telemetry_events[k].run_item_id # NULL

\* ----------------------------------------------------------------- C37
\* The events of item i of the given type: their places in the log.
ItemEventsAt(i, type) == {k \in ItemEvents(i) : telemetry_events[k].event_type = type}

\* C37: a run item in a terminal status has exactly one item.started event,
\* before every other event of the item, and exactly one item.completed
\* event, after every other event of the item, whose payload status is the
\* item's stored status.
C37_OneStartedOneCompleted ==
    \A i \in DOMAIN run_items : run_items[i].status \in ItemTerminal =>
        /\ Cardinality(ItemEventsAt(i, "item.started")) = 1
        /\ Cardinality(ItemEventsAt(i, "item.completed")) = 1
        /\ \A s \in ItemEventsAt(i, "item.started"), c \in ItemEventsAt(i, "item.completed") :
              /\ telemetry_events[c].payload.status = run_items[i].status
              /\ \A k \in ItemEvents(i) : s <= k /\ k <= c

\* ----------------------------------------------------------------- C39
\* The step ends an attempt whose provider calls all succeeded: the worker
\* leaves the await on generate and the step's last event is not the
\* item.error of a provider failure.
GenerateCallsSucceeded ==
    /\ w.pc = "generating"
    /\ w'.pc # "generating"
    /\ LET last == telemetry_events'[Len(telemetry_events')]
       IN ~(last.event_type = "item.error" /\ last.payload.error = "ProviderError")

\* C39: an attempt whose provider generate calls all succeed leaves its item
\* COMPLETED or PARTIAL_TOOL_SUPPORT, whatever the test's
\* expected_constraints is.
C39_AssertionsNeverChangeStatus ==
    [][GenerateCallsSucceeded =>
          run_items'[w.item].status \in {"COMPLETED", "PARTIAL_TOOL_SUPPORT"}]_vars

\* ----------------------------------------------------------------- C40
\* The events of run r: their places in the log, and their seq_no.
LogOf(r) == {k \in DOMAIN telemetry_events : telemetry_events[k].run_id = r}
SeqNosOf(r) == {telemetry_events[k].seq_no : k \in LogOf(r)}

\* C40: a run whose stored status is terminal has its run.completed event in
\* the log, so no poll reads the terminal status before that event; and a
\* stream opened at cursor 0 that has ended has delivered every event of its
\* run, each once, run.completed among them.
C40_StreamDeliversWholeRun ==
    /\ \A r \in DOMAIN runs :
          runs[r].status \in RunTerminal => HasEvent(r, "run.completed")
    /\ \A s \in SubIds : (subs[s].pc = "ended" /\ subs[s].start = 0) =>
          /\ Range(subs[s].delivered) = SeqNosOf(subs[s].run_id)
          /\ Len(subs[s].delivered) = Cardinality(LogOf(subs[s].run_id))
          /\ \E k \in LogOf(subs[s].run_id) :
                telemetry_events[k].event_type = "run.completed"

\* A stream opened at cursor 0 on a run that was still to finish has ended
\* after the run failed in the worker loop's handler, run.completed delivered.
C40_Witness ==
    \E s \in SubIds :
        /\ subs[s].pc = "ended" /\ subs[s].start = 0
        /\ runs[subs[s].run_id].status = "FAILED"
        /\ Len(subs[s].delivered) >= 2
        /\ \E k \in LogOf(subs[s].run_id) :
              /\ telemetry_events[k].event_type = "run.completed"
              /\ telemetry_events[k].seq_no = subs[s].delivered[Len(subs[s].delivered)]

====
